---- MODULE Spec2Model ----
(***************************************************************************)
(* copilot-sync (cops): the asset-reference parser, the lock file, the     *)
(* injector, the drift checker and the use / unuse / sync / check          *)
(* commands, modelled as a state machine over the saved manifest, the      *)
(* saved lock file and the filesystem.                                     *)
(*                                                                         *)
(* Strings are sequences of one-character strings, so that splitting,      *)
(* joining and prefix trimming are computed as the Go code computes them.  *)
(* A few fixed words (".github", an asset type, a file extension) are kept *)
(* as one token each: none of them contains "/" or "@".                    *)
(***************************************************************************)
EXTENDS Integers, Sequences, FiniteSets, TLC

VARIABLES
    manifestFile,   \* saved copilot.toml: asset -> raw reference
    lockFile,       \* saved .cops.lock: entry key -> LockEntry
    fs,             \* filesystem under the project root: path -> node
    pc,             \* "idle", or "sync" while runSyncWith is in its loop
    lock,           \* in-memory LockFile of the running sync
    todo,           \* entries the running sync has still to visit
    errors,         \* entries of the running sync whose Inject failed
    done,           \* entries of the running sync whose Inject succeeded
    clock,          \* time.Now(): one tick per command or outside change
    last,           \* what the last completed command did and returned
    inj,            \* the last Inject call of the last command, if any
    raw,            \* input of the reference parser
    parsed,         \* ParseRef(raw) once computed
    entries,        \* input list of the drift checker
    results         \* CheckAssets(entries, lockFile, fs) once computed

vars == <<manifestFile, lockFile, fs, pc, lock, todo, errors, done, clock,
          last, inj, raw, parsed, entries, results>>

None == "none"

----------------------------------------------------------------------------
(* Bounds *)

MaxRawLen == 8      \* longest raw reference the parser is fed
MaxOps == 3         \* commands and outside changes in one behaviour
MaxEntries == 2     \* longest entry list handed to CheckAssets directly
MaxInjects == 2     \* calls of Inject in a row on one Injector
MaxFieldLen == 2    \* longest field of an AssetRef that is built directly

----------------------------------------------------------------------------
(* Strings *)

Chars == {"a", "/", "@"}

RECURSIVE StringsUpTo(_)
StringsUpTo(n) ==
    IF n = 0 THEN {<<>>}
    ELSE LET shorter == StringsUpTo(n - 1)
         IN  shorter \cup {Append(s, c) : s \in {t \in shorter : Len(t) = n - 1}, c \in Chars}

\* strings.Index for a one-character separator: 0 when absent
Index(s, c) ==
    IF \E i \in 1..Len(s) : s[i] = c
    THEN CHOOSE i \in 1..Len(s) : s[i] = c /\ \A j \in 1..(i - 1) : s[j] # c
    ELSE 0

\* strings.LastIndex: 0 when absent
LastIndex(s, c) ==
    IF \E i \in 1..Len(s) : s[i] = c
    THEN CHOOSE i \in 1..Len(s) : s[i] = c /\ \A j \in (i + 1)..Len(s) : s[j] # c
    ELSE 0

\* strings.SplitN(s, c, n) for n >= 1: at most n pieces, the last one unsplit
RECURSIVE SplitN(_, _, _)
SplitN(s, c, n) ==
    LET i == Index(s, c)
    IN  IF n <= 1 \/ i = 0 THEN <<s>>
        ELSE <<SubSeq(s, 1, i - 1)>> \o SplitN(SubSeq(s, i + 1, Len(s)), c, n - 1)

HasPrefix(s, p) == Len(p) <= Len(s) /\ SubSeq(s, 1, Len(p)) = p

HasSuffix(s, p) == Len(p) <= Len(s) /\ SubSeq(s, Len(s) - Len(p) + 1, Len(s)) = p

\* strings.TrimPrefix
TrimPrefix(s, p) == IF HasPrefix(s, p) THEN SubSeq(s, Len(p) + 1, Len(s)) ELSE s

\* all "/"-separated pieces of a path
RECURSIVE Segments(_)
Segments(s) ==
    LET i == Index(s, "/")
    IN  IF i = 0 THEN <<s>>
        ELSE <<SubSeq(s, 1, i - 1)>> \o Segments(SubSeq(s, i + 1, Len(s)))

RECURSIVE JoinSegments(_)
JoinSegments(segs) ==
    IF Len(segs) = 0 THEN <<>>
    ELSE IF Len(segs) = 1 THEN segs[1]
    ELSE segs[1] \o <<"/">> \o JoinSegments(Tail(segs))

\* filepath.Clean on relative paths without "..": empty and "." segments go
Clean(p) ==
    LET kept == SelectSeq(Segments(p), LAMBDA seg : seg # <<>> /\ seg # <<".">>)
    IN  IF Len(kept) = 0 THEN <<".">> ELSE JoinSegments(kept)

\* filepath.Join of two elements
Join(a, b) ==
    IF a = <<>> THEN Clean(b)
    ELSE IF b = <<>> THEN Clean(a)
    ELSE Clean(a \o <<"/">> \o b)

\* filepath.Base of a cleaned path
Base(p) == LET i == LastIndex(p, "/") IN SubSeq(p, i + 1, Len(p))

\* filepath.Dir of a cleaned path
Dir(p) == LET i == LastIndex(p, "/") IN IF i = 0 THEN <<".">> ELSE SubSeq(p, 1, i - 1)

----------------------------------------------------------------------------
(* internal/config/types.go *)

Instructions == "instructions"
Agents == "agents"
Prompts == "prompts"
Skills == "skills"

IsValid(t) == t \in {Instructions, Agents, Prompts, Skills}

FileExtension(t) ==
    CASE t = Instructions -> <<".instructions.md">>
      [] t = Agents -> <<".agent.md">>
      [] t = Prompts -> <<".prompt.md">>
      [] OTHER -> <<>>

TargetDir(t) == Join(<<".github">>, <<t>>)

TargetPath(t, name) ==
    IF t = Skills THEN Join(TargetDir(t), name)
    ELSE Join(TargetDir(t), name \o FileExtension(t))

IsDirectory(t) == t = Skills

ParseErr == [err |-> TRUE]

\* ParseRef with the path split at every "/": what lies below the first level
\* of the path is dropped
ParseRefSplit(r) ==
    LET parts == SplitN(r, "@", 2)
    IN  IF Len(parts) # 2 \/ parts[2] = <<>> THEN ParseErr
        ELSE LET segments == Segments(parts[1])
             IN  IF Len(segments) < 3 \/ segments[1] = <<>> \/ segments[2] = <<>>
                        \/ segments[3] = <<>>
                 THEN ParseErr
                 ELSE [err |-> FALSE, Org |-> segments[1], Repo |-> segments[2],
                       Path |-> segments[3], Ref |-> parts[2]]

\* ParseRef with the ref split off at the last "@" instead of the first
ParseRefLastAt(r) ==
    LET i == LastIndex(r, "@")
        parts == IF i = 0 THEN <<r>> ELSE <<SubSeq(r, 1, i - 1), SubSeq(r, i + 1, Len(r))>>
    IN  IF Len(parts) # 2 \/ parts[2] = <<>> THEN ParseErr
        ELSE LET segments == SplitN(parts[1], "/", 3)
             IN  IF Len(segments) < 3 \/ segments[1] = <<>> \/ segments[2] = <<>>
                        \/ segments[3] = <<>>
                 THEN ParseErr
                 ELSE [err |-> FALSE, Org |-> segments[1], Repo |-> segments[2],
                       Path |-> segments[3], Ref |-> parts[2]]

\* ParseRef that counts the segments and does not look whether one is empty
ParseRefLax(r) ==
    LET parts == SplitN(r, "@", 2)
    IN  IF Len(parts) # 2 \/ parts[2] = <<>> THEN ParseErr
        ELSE LET segments == SplitN(parts[1], "/", 3)
             IN  IF Len(segments) < 3 THEN ParseErr
                 ELSE [err |-> FALSE, Org |-> segments[1], Repo |-> segments[2],
                       Path |-> segments[3], Ref |-> parts[2]]

\* ParseRef: [err |-> TRUE] or [err |-> FALSE, Org, Repo, Path, Ref]
ParseRef(r) ==
    LET parts == SplitN(r, "@", 2)
    IN  IF Len(parts) # 2 \/ parts[2] = <<>> THEN ParseErr
        ELSE LET segments == SplitN(parts[1], "/", 3)
             IN  IF Len(segments) < 3 \/ segments[1] = <<>> \/ segments[2] = <<>>
                        \/ segments[3] = <<>>
                 THEN ParseErr
                 ELSE [err |-> FALSE, Org |-> segments[1], Repo |-> segments[2],
                       Path |-> segments[3], Ref |-> parts[2]]

\* AssetRef.Raw: "%s/%s/%s@%s"
Raw(r) == r.Org \o <<"/">> \o r.Repo \o <<"/">> \o r.Path \o <<"@">> \o r.Ref

----------------------------------------------------------------------------
(* Byte order of strings, as sort.Strings and encoding/json use it *)

\* position of a character (or fixed word, by its first byte) in byte order
Rank(c) ==
    CASE c = "." -> 1
      [] c = ".md" -> 1
      [] c = "/" -> 2
      [] c = "@" -> 3
      [] c = "a" -> 4
      [] c = Agents -> 4
      [] c = "b" -> 5
      [] c = "f" -> 6
      [] c = "g" -> 7
      [] c = Instructions -> 8
      [] c = "o" -> 9
      [] c = "p" -> 10
      [] c = Prompts -> 10
      [] c = "q" -> 11
      [] c = "r" -> 12
      [] c = Skills -> 13
      [] c = "v" -> 14
      [] c = "w" -> 15
      [] OTHER -> 16

\* s < t in byte order
RECURSIVE StrLess(_, _)
StrLess(s, t) ==
    IF t = <<>> THEN FALSE
    ELSE IF s = <<>> THEN TRUE
    ELSE IF Rank(Head(s)) # Rank(Head(t)) THEN Rank(Head(s)) < Rank(Head(t))
    ELSE StrLess(Tail(s), Tail(t))

\* sort.Strings over a set of distinct keys
RECURSIVE SortStrings(_)
SortStrings(S) ==
    IF S = {} THEN <<>>
    ELSE LET m == CHOOSE x \in S : \A y \in S \ {x} : StrLess(x, y)
         IN  <<m>> \o SortStrings(S \ {m})

----------------------------------------------------------------------------
(* Go maps *)

MapPut(m, k, v) == [x \in DOMAIN m \cup {k} |-> IF x = k THEN v ELSE m[x]]

MapDelete(m, k) == [x \in DOMAIN m \ {k} |-> m[x]]

EmptyMap == [x \in {} |-> None]

----------------------------------------------------------------------------
(* internal/manifest/lock.go *)

\* crypto/sha256 taken as collision-free: the digest names the bytes it digests
checksum(data) == <<"sha256">> \o data

NewLockFile == [Version |-> 1, Entries |-> EmptyMap]

entryKey(assetType, name) == <<assetType>> \o <<"/">> \o name

\* LockFile.Set that updates an entry already there field by field and leaves
\* its time of syncing
LockSetMerge(lf, assetType, name, ref, resolvedSHA, targetPath, content, now) ==
    LET key == entryKey(assetType, name)
        fresh == [Type |-> assetType, Name |-> name, Ref |-> ref, ResolvedSHA |-> resolvedSHA,
                  TargetPath |-> targetPath, Checksum |-> checksum(content), SyncedAt |-> now]
    IN  [lf EXCEPT !.Entries = MapPut(lf.Entries, key,
            IF key \in DOMAIN lf.Entries
            THEN [fresh EXCEPT !.SyncedAt = lf.Entries[key].SyncedAt]
            ELSE fresh)]

\* LockFile.Set: the entry under the key is replaced as a whole
LockSet(lf, assetType, name, ref, resolvedSHA, targetPath, content, now) ==
    [lf EXCEPT !.Entries = MapPut(lf.Entries, entryKey(assetType, name),
        [Type |-> assetType, Name |-> name, Ref |-> ref, ResolvedSHA |-> resolvedSHA,
         TargetPath |-> targetPath, Checksum |-> checksum(content), SyncedAt |-> now])]

\* LockFile.Get: the entry and whether it is there (the zero entry when not)
ZeroEntry == [Type |-> "", Name |-> <<>>, Ref |-> <<>>, ResolvedSHA |-> <<>>,
              TargetPath |-> <<>>, Checksum |-> <<>>, SyncedAt |-> 0]

LockGet(lf, assetType, name) ==
    LET key == entryKey(assetType, name)
    IN  IF key \in DOMAIN lf.Entries THEN [e |-> lf.Entries[key], ok |-> TRUE]
        ELSE [e |-> ZeroEntry, ok |-> FALSE]

LockRemove(lf, assetType, name) ==
    [lf EXCEPT !.Entries = MapDelete(lf.Entries, entryKey(assetType, name))]

\* the lock file when os.ReadFile reports that it does not exist
NoLockDoc == [exists |-> FALSE, version |-> 0, entries |-> <<>>]

\* LockFile.Save that writes the entries in the order they were set in
LockSaveInserted(lf) ==
    LET before(a, b) == \/ lf.Entries[a].SyncedAt < lf.Entries[b].SyncedAt
                        \/ (lf.Entries[a].SyncedAt = lf.Entries[b].SyncedAt /\ StrLess(a, b))
        place(k) == Cardinality({a \in DOMAIN lf.Entries : before(a, k)}) + 1
    IN  [exists |-> TRUE, version |-> lf.Version,
         entries |-> [i \in 1..Cardinality(DOMAIN lf.Entries) |->
                        LET k == CHOOSE a \in DOMAIN lf.Entries : place(a) = i
                        IN  <<k, lf.Entries[k]>>]]

\* LockFile.Save: json.MarshalIndent writes the version, then the entries with
\* their keys in sorted order
LockSave(lf) ==
    LET keys == SortStrings(DOMAIN lf.Entries)
    IN  [exists |-> TRUE, version |-> lf.Version,
         entries |-> [i \in 1..Len(keys) |-> <<keys[i], lf.Entries[keys[i]]>>]]

\* LoadLock: no file is the empty lock; otherwise json.Unmarshal of the document
LoadLock(doc) ==
    IF ~doc.exists THEN NewLockFile
    ELSE [Version |-> doc.version,
          Entries |-> [k \in {doc.entries[i][1] : i \in 1..Len(doc.entries)} |->
                         LET i == CHOOSE j \in 1..Len(doc.entries) : doc.entries[j][1] = k
                         IN  doc.entries[i][2]]]

----------------------------------------------------------------------------
(* The filesystem: os.Stat, os.MkdirAll, os.WriteFile, os.Remove, os.RemoveAll *)

DirNode == [dir |-> TRUE, data |-> <<>>]

FileNode(data) == [dir |-> FALSE, data |-> data]

Exists(f, p) == p \in DOMAIN f

\* p and the directories above it, Dir until "."
RECURSIVE Ancestors(_)
Ancestors(p) == IF p = <<".">> THEN {} ELSE {p} \cup Ancestors(Dir(p))

IsUnder(q, p) == HasPrefix(q, p \o <<"/">>)

\* os.MkdirAll: fails when told to, or when a file is in the way
MkdirAll(f, p, fail) ==
    IF fail \/ \E q \in Ancestors(p) : q \in DOMAIN f /\ ~f[q].dir
    THEN [fs |-> f, err |-> TRUE]
    ELSE [fs |-> [q \in DOMAIN f \cup Ancestors(p) |-> IF q \in DOMAIN f THEN f[q] ELSE DirNode],
          err |-> FALSE]

\* os.WriteFile: the parent must be a directory and p must not be one
WriteFile(f, p, data, fail) ==
    IF fail \/ (Dir(p) # <<".">> /\ (Dir(p) \notin DOMAIN f \/ ~f[Dir(p)].dir))
            \/ (p \in DOMAIN f /\ f[p].dir)
    THEN [fs |-> f, err |-> TRUE]
    ELSE [fs |-> MapPut(f, p, FileNode(data)), err |-> FALSE]

\* os.Remove: a file or an empty directory
Remove(f, p, fail) ==
    IF fail \/ p \notin DOMAIN f \/ \E q \in DOMAIN f : IsUnder(q, p)
    THEN [fs |-> f, err |-> TRUE]
    ELSE [fs |-> MapDelete(f, p), err |-> FALSE]

\* os.RemoveAll: p and everything under it; an absent p is no error
RemoveAll(f, p, fail) ==
    IF fail THEN [fs |-> f, err |-> TRUE]
    ELSE [fs |-> [q \in {x \in DOMAIN f : x # p /\ ~IsUnder(x, p)} |-> f[q]], err |-> FALSE]

----------------------------------------------------------------------------
(* internal/resolver/resolver.go: the source collaborator.  What the remote   *)
(* host answers is an input of each call:                                     *)
(* remote == [branch, get, treeErr, tree, sha].                               *)

Latest == <<"l", "a", "t", "e", "s", "t">>

\* ResolveRef: "latest" becomes the default branch; any other ref passes
ResolveRef(ref, remote) ==
    IF ref.Ref # Latest THEN [err |-> FALSE, ref |-> ref]
    ELSE IF remote.branch = <<>> THEN [err |-> TRUE, ref |-> ref]
    ELSE [err |-> FALSE, ref |-> [ref EXCEPT !.Ref = remote.branch]]

\* the loop of DownloadFile over pathsToTry, from the i-th path on; get[path] is
\* the answer of the host for that path
RECURSIVE TryPaths(_, _, _, _)
TryPaths(paths, i, get, requested) ==
    IF i > Len(paths) THEN [err |-> TRUE, data |-> <<>>, requested |-> requested]
    ELSE LET resp == get[paths[i]]
             req == Append(requested, paths[i])
         IN  CASE resp.st = "neterr" -> TryPaths(paths, i + 1, get, req)
               [] resp.st = "404" -> TryPaths(paths, i + 1, get, req)
               [] resp.st = "200" -> [err |-> FALSE, data |-> resp.body, requested |-> req]
               [] OTHER -> [err |-> TRUE, data |-> <<>>, requested |-> req]

\* DownloadFile that asks for the exact path only
DownloadFileExact(ref, remote) ==
    LET rr == ResolveRef(ref, remote)
    IN  IF rr.err THEN [err |-> TRUE, data |-> <<>>, requested |-> <<>>]
        ELSE TryPaths(<<rr.ref.Path>>, 1, remote.get, <<>>)

\* Resolver.DownloadFile
DownloadFile(ref, remote) ==
    LET rr == ResolveRef(ref, remote)
    IN  IF rr.err THEN [err |-> TRUE, data |-> <<>>, requested |-> <<>>]
        ELSE LET pathsToTry == IF HasSuffix(rr.ref.Path, <<".md">>) THEN <<rr.ref.Path>>
                               ELSE <<rr.ref.Path, rr.ref.Path \o <<".md">>>>
             IN  TryPaths(pathsToTry, 1, remote.get, <<>>)

\* ListDirectory that hands back an empty listing without an error
ListDirectoryAllowEmpty(ref, remote) ==
    LET rr == ResolveRef(ref, remote)
    IN  IF rr.err \/ remote.treeErr THEN [err |-> TRUE, entries |-> <<>>]
        ELSE LET prefix == rr.ref.Path \o <<"/">>
             IN  [err |-> FALSE,
                  entries |-> SelectSeq(remote.tree, LAMBDA e :
                                  e.Type = "blob"
                                  /\ (e.Path = rr.ref.Path
                                      \/ (Len(e.Path) > Len(prefix)
                                          /\ HasPrefix(e.Path, prefix))))]

\* Resolver.ListDirectory: the blobs at or under the path; none is an error
ListDirectory(ref, remote) ==
    LET rr == ResolveRef(ref, remote)
    IN  IF rr.err \/ remote.treeErr THEN [err |-> TRUE, entries |-> <<>>]
        ELSE LET prefix == rr.ref.Path \o <<"/">>
                 found == SelectSeq(remote.tree, LAMBDA e :
                              e.Type = "blob"
                              /\ (e.Path = rr.ref.Path
                                  \/ (Len(e.Path) > Len(prefix) /\ HasPrefix(e.Path, prefix))))
             IN  IF Len(found) = 0 THEN [err |-> TRUE, entries |-> <<>>]
                 ELSE [err |-> FALSE, entries |-> found]

\* Resolver.ResolveCommitSHA
ResolveSHA(ref, remote) ==
    LET rr == ResolveRef(ref, remote)
    IN  IF rr.err \/ remote.sha = <<>> THEN [err |-> TRUE, sha |-> <<>>]
        ELSE [err |-> FALSE, sha |-> remote.sha]

----------------------------------------------------------------------------
(* internal/injector/injector.go.  io == [failMkdir, failRemove, failWrite]   *)
(* says which filesystem calls fail: failWrite is the set of paths that       *)
(* cannot be written.                                                         *)

rootDir == <<".">>

\* what injectFile and injectDirectory hand back, with what they did on the way
Outcome(lk, f, err, calls, requested, sha, data) ==
    [lock |-> lk, fs |-> f, err |-> err, calls |-> calls, requested |-> requested,
     sha |-> sha, data |-> data]

\* injectFile that fetches and writes the content first and resolves the
\* revision only then
injectFileFetchFirst(lk, f, ref, absTarget, assetType, name, rawRef, remote, io, now) ==
    LET mk == MkdirAll(f, Dir(absTarget), io.failMkdir)
        dl == DownloadFile(ref, remote)
        existed == Exists(mk.fs, absTarget)
        rm == IF existed THEN Remove(mk.fs, absTarget, io.failRemove)
              ELSE [fs |-> mk.fs, err |-> FALSE]
        wr == WriteFile(rm.fs, absTarget, dl.data, absTarget \in io.failWrite)
        rs == ResolveSHA(ref, remote)
        c1 == <<"MkdirAll">>
        c2 == Append(c1, "DownloadFile")
        c3 == IF existed THEN Append(c2, "Remove") ELSE c2
        c4 == Append(c3, "WriteFile")
        c5 == Append(c4, "ResolveSHA")
    IN  IF mk.err THEN Outcome(lk, mk.fs, "creating directory", c1, <<>>, <<>>, <<>>)
        ELSE IF dl.err THEN Outcome(lk, mk.fs, "downloading", c2, dl.requested, <<>>, <<>>)
        ELSE IF rm.err THEN Outcome(lk, rm.fs, "removing existing file", c3, dl.requested,
                                    <<>>, dl.data)
        ELSE IF wr.err THEN Outcome(lk, wr.fs, "writing file", c4, dl.requested, <<>>, dl.data)
        ELSE IF rs.err THEN Outcome(lk, wr.fs, "resolving commit SHA", c5, dl.requested, <<>>,
                                    dl.data)
        ELSE Outcome(LockSet(lk, assetType, name, rawRef, rs.sha,
                             TargetPath(assetType, name), dl.data, now),
                     wr.fs, None, Append(c5, "LockSet"), dl.requested, rs.sha, dl.data)

\* injectFile that writes over a file already there without removing it first
injectFileNoRemove(lk, f, ref, absTarget, assetType, name, rawRef, remote, io, now) ==
    LET mk == MkdirAll(f, Dir(absTarget), io.failMkdir)
        rs == ResolveSHA(ref, remote)
        dl == DownloadFile(ref, remote)
        wr == WriteFile(mk.fs, absTarget, dl.data, absTarget \in io.failWrite)
        c1 == <<"MkdirAll">>
        c2 == Append(c1, "ResolveSHA")
        c3 == Append(c2, "DownloadFile")
        c5 == Append(c3, "WriteFile")
    IN  IF mk.err THEN Outcome(lk, mk.fs, "creating directory", c1, <<>>, <<>>, <<>>)
        ELSE IF rs.err THEN Outcome(lk, mk.fs, "resolving commit SHA", c2, <<>>, <<>>, <<>>)
        ELSE IF dl.err THEN Outcome(lk, mk.fs, "downloading", c3, dl.requested, rs.sha, <<>>)
        ELSE IF wr.err THEN Outcome(lk, wr.fs, "writing file", c5, dl.requested, rs.sha,
                                    dl.data)
        ELSE Outcome(LockSet(lk, assetType, name, rawRef, rs.sha,
                             TargetPath(assetType, name), dl.data, now),
                     wr.fs, None, Append(c5, "LockSet"), dl.requested, rs.sha, dl.data)

injectFile(lk, f, ref, absTarget, assetType, name, rawRef, remote, io, now) ==
    LET mk == MkdirAll(f, Dir(absTarget), io.failMkdir)
        rs == ResolveSHA(ref, remote)
        dl == DownloadFile(ref, remote)
        existed == Exists(mk.fs, absTarget)
        rm == IF existed THEN Remove(mk.fs, absTarget, io.failRemove)
              ELSE [fs |-> mk.fs, err |-> FALSE]
        wr == WriteFile(rm.fs, absTarget, dl.data, absTarget \in io.failWrite)
        c1 == <<"MkdirAll">>
        c2 == Append(c1, "ResolveSHA")
        c3 == Append(c2, "DownloadFile")
        c4 == IF existed THEN Append(c3, "Remove") ELSE c3
        c5 == Append(c4, "WriteFile")
    IN  IF mk.err THEN Outcome(lk, mk.fs, "creating directory", c1, <<>>, <<>>, <<>>)
        ELSE IF rs.err THEN Outcome(lk, mk.fs, "resolving commit SHA", c2, <<>>, <<>>, <<>>)
        ELSE IF dl.err THEN Outcome(lk, mk.fs, "downloading", c3, dl.requested, rs.sha, <<>>)
        ELSE IF rm.err THEN Outcome(lk, rm.fs, "removing existing file", c4, dl.requested,
                                    rs.sha, dl.data)
        ELSE IF wr.err THEN Outcome(lk, wr.fs, "writing file", c5, dl.requested, rs.sha,
                                    dl.data)
        ELSE Outcome(LockSet(lk, assetType, name, rawRef, rs.sha,
                             TargetPath(assetType, name), dl.data, now),
                     wr.fs, None, Append(c5, "LockSet"), dl.requested, rs.sha, dl.data)

\* computeDirectoryChecksum without sort.Strings, for a range over the map that
\* yields the keys from the last to the first
computeDirectoryChecksumUnsorted(contents) ==
    LET keys == SortStrings(DOMAIN contents)
        n == Len(keys)
        cat[i \in 0..n] == IF i = 0 THEN <<>> ELSE cat[i - 1] \o contents[keys[n + 1 - i]]
    IN  cat[n]

\* the concatenation of the contents in sorted key order
computeDirectoryChecksum(contents) ==
    LET keys == SortStrings(DOMAIN contents)
        cat[i \in 0..Len(keys)] == IF i = 0 THEN <<>> ELSE cat[i - 1] \o contents[keys[i]]
    IN  cat[Len(keys)]

\* the loop of injectDirectory over the listed entries, from the i-th on
RECURSIVE fetchEntries(_, _, _, _, _, _, _, _)
fetchEntries(listed, i, f, allContents, calls, ref, absTargetDir, env) ==
    IF i > Len(listed) THEN [fs |-> f, err |-> None, calls |-> calls,
                             allContents |-> allContents]
    ELSE LET entry == listed[i]
             trimmed == TrimPrefix(entry.Path, ref.Path \o <<"/">>)
             relPath == IF trimmed = entry.Path THEN Base(entry.Path) ELSE trimmed
             targetFile == Join(absTargetDir, relPath)
             mk == MkdirAll(f, Dir(targetFile), env.io.failMkdir)
             fileRef == [ref EXCEPT !.Path = entry.Path]
             dl == DownloadFile(fileRef, env.remote)
             wr == WriteFile(mk.fs, targetFile, dl.data, targetFile \in env.io.failWrite)
             c1 == Append(calls, "MkdirAll")
             c2 == Append(c1, "DownloadFile")
             c3 == Append(c2, "WriteFile")
         IN  IF mk.err THEN [fs |-> mk.fs, err |-> "creating directory", calls |-> c1,
                             allContents |-> allContents]
             ELSE IF dl.err THEN [fs |-> mk.fs, err |-> "downloading", calls |-> c2,
                                  allContents |-> allContents]
             ELSE IF wr.err THEN [fs |-> wr.fs, err |-> "writing file", calls |-> c3,
                                  allContents |-> allContents]
             ELSE fetchEntries(listed, i + 1, wr.fs, MapPut(allContents, relPath, dl.data),
                               c3, ref, absTargetDir, env)

\* injectDirectory for which a failed revision lookup is an error
injectDirectoryFetchedStrict(lk, ref, absTargetDir, remote, now, fetched) ==
    LET rs == ResolveSHA(ref, remote)
        combinedContent == computeDirectoryChecksum(fetched.allContents)
        targetPath == TrimPrefix(absTargetDir, rootDir \o <<"/">>)
    IN  IF fetched.err # None
        THEN Outcome(lk, fetched.fs, fetched.err, fetched.calls, <<>>, <<>>, <<>>)
        ELSE IF rs.err
        THEN Outcome(lk, fetched.fs, "resolving commit SHA",
                     Append(fetched.calls, "ResolveSHA"), <<>>, <<>>, <<>>)
        ELSE Outcome(LockSet(lk, Skills, Base(absTargetDir), Raw(ref), rs.sha, targetPath,
                             combinedContent, now),
                     fetched.fs, None, fetched.calls \o <<"ResolveSHA", "LockSet">>, <<>>,
                     rs.sha, combinedContent)

\* injectDirectory that sets the lock entry from whatever the loop fetched,
\* also when the loop stopped at a file that failed
injectDirectoryFetchedLockAnyway(lk, ref, absTargetDir, remote, now, fetched) ==
    LET rs == ResolveSHA(ref, remote)
        sha == IF rs.err THEN <<"unknown">> ELSE rs.sha
        combinedContent == computeDirectoryChecksum(fetched.allContents)
        targetPath == TrimPrefix(absTargetDir, rootDir \o <<"/">>)
    IN  Outcome(LockSet(lk, Skills, Base(absTargetDir), Raw(ref), sha, targetPath,
                        combinedContent, now),
                fetched.fs, fetched.err, fetched.calls \o <<"ResolveSHA", "LockSet">>, <<>>,
                sha, combinedContent)

\* injectDirectory from the end of its loop on: fetched is what the loop left
injectDirectoryFetched(lk, ref, absTargetDir, remote, now, fetched) ==
    LET rs == ResolveSHA(ref, remote)
        sha == IF rs.err THEN <<"unknown">> ELSE rs.sha
        combinedContent == computeDirectoryChecksum(fetched.allContents)
        targetPath == TrimPrefix(absTargetDir, rootDir \o <<"/">>)
    IN  IF fetched.err # None
        THEN Outcome(lk, fetched.fs, fetched.err, fetched.calls, <<>>, <<>>, <<>>)
        ELSE Outcome(LockSet(lk, Skills, Base(absTargetDir), Raw(ref), sha, targetPath,
                             combinedContent, now),
                     fetched.fs, None, fetched.calls \o <<"ResolveSHA", "LockSet">>, <<>>,
                     sha, combinedContent)

\* injectDirectory that empties the target directory before it writes into it
injectDirectoryClean(lk, f, ref, absTargetDir, remote, io, now) ==
    LET ls == ListDirectory(ref, remote)
        mk == MkdirAll(RemoveAll(f, absTargetDir, FALSE).fs, absTargetDir, io.failMkdir)
    IN  IF ls.err THEN Outcome(lk, f, "listing directory", <<"ListDirectory">>, <<>>, <<>>, <<>>)
        ELSE IF mk.err THEN Outcome(lk, mk.fs, "creating skill directory",
                                    <<"ListDirectory", "MkdirAll">>, <<>>, <<>>, <<>>)
        ELSE injectDirectoryFetched(lk, ref, absTargetDir, remote, now,
                 fetchEntries(ls.entries, 1, mk.fs, EmptyMap, <<"ListDirectory", "MkdirAll">>,
                              ref, absTargetDir, [remote |-> remote, io |-> io]))

\* injectDirectory that takes the target directory away again when a file of
\* the listing failed
injectDirectoryRollback(lk, f, ref, absTargetDir, remote, io, now) ==
    LET ls == ListDirectory(ref, remote)
        mk == MkdirAll(f, absTargetDir, io.failMkdir)
        undo(out) == IF out.err = None THEN out
                     ELSE [out EXCEPT !.fs = RemoveAll(out.fs, absTargetDir, FALSE).fs]
    IN  IF ls.err THEN Outcome(lk, f, "listing directory", <<"ListDirectory">>, <<>>, <<>>, <<>>)
        ELSE IF mk.err THEN Outcome(lk, mk.fs, "creating skill directory",
                                    <<"ListDirectory", "MkdirAll">>, <<>>, <<>>, <<>>)
        ELSE undo(injectDirectoryFetched(lk, ref, absTargetDir, remote, now,
                 fetchEntries(ls.entries, 1, mk.fs, EmptyMap, <<"ListDirectory", "MkdirAll">>,
                              ref, absTargetDir, [remote |-> remote, io |-> io])))

injectDirectory(lk, f, ref, absTargetDir, remote, io, now) ==
    LET ls == ListDirectory(ref, remote)
        mk == MkdirAll(f, absTargetDir, io.failMkdir)
    IN  IF ls.err THEN Outcome(lk, f, "listing directory", <<"ListDirectory">>, <<>>, <<>>, <<>>)
        ELSE IF mk.err THEN Outcome(lk, mk.fs, "creating skill directory",
                                    <<"ListDirectory", "MkdirAll">>, <<>>, <<>>, <<>>)
        ELSE injectDirectoryFetched(lk, ref, absTargetDir, remote, now,
                 fetchEntries(ls.entries, 1, mk.fs, EmptyMap, <<"ListDirectory", "MkdirAll">>,
                              ref, absTargetDir, [remote |-> remote, io |-> io]))

\* the InjectResult that Inject returns beside the outcome out
Returned(out, result) ==
    [lock |-> out.lock, fs |-> out.fs, err |-> out.err, calls |-> out.calls,
     requested |-> out.requested, sha |-> out.sha, data |-> out.data, result |-> result]

\* Inject that makes the directory of the target before it parses the reference
InjectParseLate(lk, f, assetType, name, rawRef, remote, io, now) ==
    LET ref == ParseRef(rawRef)
        targetPath == TargetPath(assetType, name)
        absTarget == Join(rootDir, targetPath)
        mk == MkdirAll(f, Dir(absTarget), io.failMkdir)
    IN  IF ref.err
        THEN Returned(Outcome(lk, mk.fs, "invalid reference", <<"MkdirAll">>, <<>>, <<>>, <<>>),
                      [Type |-> assetType, Name |-> name, Ref |-> rawRef,
                       TargetPath |-> <<>>, SHA |-> <<>>])
        ELSE Returned(IF IsDirectory(assetType)
                      THEN injectDirectory(lk, mk.fs, ref, absTarget, remote, io, now)
                      ELSE injectFile(lk, mk.fs, ref, absTarget, assetType, name, rawRef,
                                      remote, io, now),
                      [Type |-> assetType, Name |-> name, Ref |-> rawRef,
                       TargetPath |-> targetPath, SHA |-> <<>>])

\* Injector.Inject: the outcome, and the InjectResult under result
Inject(lk, f, assetType, name, rawRef, remote, io, now) ==
    LET ref == ParseRef(rawRef)
        targetPath == TargetPath(assetType, name)
        absTarget == Join(rootDir, targetPath)
    IN  IF ref.err
        THEN Returned(Outcome(lk, f, "invalid reference", <<>>, <<>>, <<>>, <<>>),
                      [Type |-> assetType, Name |-> name, Ref |-> rawRef,
                       TargetPath |-> <<>>, SHA |-> <<>>])
        ELSE Returned(IF IsDirectory(assetType)
                      THEN injectDirectory(lk, f, ref, absTarget, remote, io, now)
                      ELSE injectFile(lk, f, ref, absTarget, assetType, name, rawRef, remote,
                                      io, now),
                      [Type |-> assetType, Name |-> name, Ref |-> rawRef,
                       TargetPath |-> targetPath, SHA |-> <<>>])

----------------------------------------------------------------------------
(* internal/manifest/manifest.go: the manifest is one map per section *)

AllTypes == {Instructions, Agents, Prompts, Skills}

NewManifest == [t \in AllTypes |-> EmptyMap]

\* Manifest.Set (the type is valid wherever it is called)
ManifestSet(m, assetType, name, ref) ==
    [m EXCEPT ![assetType] = MapPut(m[assetType], name, ref)]

\* Manifest.Remove: the manifest, and whether the entry existed
ManifestRemove(m, assetType, name) ==
    IF name \in DOMAIN m[assetType]
    THEN [m |-> [m EXCEPT ![assetType] = MapDelete(m[assetType], name)], removed |-> TRUE]
    ELSE [m |-> m, removed |-> FALSE]

\* every order in which ranging over a Go map may visit the keys
RECURSIVE Orders(_)
Orders(S) ==
    IF S = {} THEN {<<>>}
    ELSE UNION {{<<x>> \o rest : rest \in Orders(S \ {x})} : x \in S}

SectionEntries(m, t) ==
    {[i \in 1..Len(o) |-> [Type |-> t, Name |-> o[i], Ref |-> m[t][o[i]]]] :
        o \in Orders(DOMAIN m[t])}

\* Manifest.AllEntries: the sections in their fixed order, each in map order
AllEntries(m) ==
    {a \o b \o c \o d : a \in SectionEntries(m, Instructions), b \in SectionEntries(m, Agents),
                        c \in SectionEntries(m, Prompts), d \in SectionEntries(m, Skills)}

----------------------------------------------------------------------------
(* internal/cli/checker.go *)

CheckOK == "OK"
CheckNeverSynced == "NeverSynced"
CheckFileMissing == "FileMissing"
CheckNotInLock == "NotInLock"
CheckRefMismatch == "RefMismatch"

\* the status without the comparison of the refs
CheckStatusAnyRef(entry, lf, f) ==
    LET fileExists == Exists(f, TargetPath(entry.Type, entry.Name))
        got == LockGet(lf, entry.Type, entry.Name)
    IN  CASE ~fileExists /\ ~got.ok -> CheckNeverSynced
          [] ~fileExists /\ got.ok -> CheckFileMissing
          [] fileExists /\ ~got.ok -> CheckNotInLock
          [] OTHER -> CheckOK

\* the status CheckAssets gives one entry
CheckStatus(entry, lf, f) ==
    LET targetPath == TargetPath(entry.Type, entry.Name)
        fileExists == Exists(f, targetPath)
        got == LockGet(lf, entry.Type, entry.Name)
    IN  CASE ~fileExists /\ ~got.ok -> CheckNeverSynced
          [] ~fileExists /\ got.ok -> CheckFileMissing
          [] fileExists /\ ~got.ok -> CheckNotInLock
          [] fileExists /\ got.ok /\ got.e.Ref # entry.Ref -> CheckRefMismatch
          [] OTHER -> CheckOK

CheckAssets(es, lf, f) ==
    [i \in 1..Len(es) |->
        [Type |-> es[i].Type, Name |-> es[i].Name, Status |-> CheckStatus(es[i], lf, f),
         LockRef |-> LockGet(lf, es[i].Type, es[i].Name).e.Ref, ManifRef |-> es[i].Ref]]

----------------------------------------------------------------------------
(* Inputs: the names, references, remote answers and failures that are tried *)

NameA == <<"a">>
NameBA == <<"b", "/", "a">>

Widgets == "widgets"

RefV == <<"o", "/", "r", "/", "p", "@", "v">>
RefW == <<"o", "/", "r", "/", "p", "@", "w">>
RefBad == <<"o", "/", "r", "@", "v">>
GoodRefs == {RefV, RefW}
RawRefs == GoodRefs \cup {RefBad}

DataA == <<"A">>
DataB == <<"B">>

PathP == <<"p">>
PathF == <<"p", "/", "f">>
PathG == <<"p", "/", "g">>
PathQ == <<"q", "/", "f">>
Md == <<".md">>

Resp200(d) == [st |-> "200", body |-> d]
Resp404 == [st |-> "404", body |-> <<>>]
Resp500 == [st |-> "500", body |-> <<>>]
RespNetErr == [st |-> "neterr", body |-> <<>>]

\* the host's answers: r1 for p and p/f, r2 for p/g, rmd for every path with ".md"
GetOf(r1, r2, rmd) ==
    [path \in {PathP, PathF, PathG, PathP \o Md, PathF \o Md, PathG \o Md} |->
        IF HasSuffix(path, Md) THEN rmd ELSE IF path = PathG THEN r2 ELSE r1]

Blob(path) == [Path |-> path, Type |-> "blob"]
Tree(path) == [Path |-> path, Type |-> "tree"]

ShaS == <<"s">>

Remote(r1, r2, rmd, treeErr, tree, sha) ==
    [branch |-> <<"m">>, get |-> GetOf(r1, r2, rmd), treeErr |-> treeErr, tree |-> tree,
     sha |-> sha]

IoOK == [failMkdir |-> FALSE, failRemove |-> FALSE, failWrite |-> {}]

Env(remote, io) == [remote |-> remote, io |-> io]

\* what a single-file Inject may meet: every answer to the download with and
\* without the ".md" retry, a failed revision lookup, a failing filesystem call
FileEnvs(target) ==
    LET happy == Remote(Resp200(DataA), Resp404, Resp404, TRUE, <<>>, ShaS)
    IN  {Env(Remote(r1, Resp404, Resp404, TRUE, <<>>, ShaS), IoOK) :
            r1 \in {Resp200(DataA), Resp200(DataB), Resp500}}
        \cup {Env(Remote(r1, Resp404, rmd, TRUE, <<>>, ShaS), IoOK) :
                r1 \in {Resp404, RespNetErr}, rmd \in {Resp404, Resp200(DataB)}}
        \cup {Env(Remote(Resp200(DataA), Resp404, Resp404, TRUE, <<>>, <<>>), IoOK)}
        \cup {Env(happy, io) : io \in {[IoOK EXCEPT !.failMkdir = TRUE],
                                       [IoOK EXCEPT !.failRemove = TRUE],
                                       [IoOK EXCEPT !.failWrite = {target}]}}

TreeF == <<Tree(PathP), Blob(PathF)>>
TreeFG == <<Blob(PathF), Blob(PathG)>>
TreeGF == <<Blob(PathG), Blob(PathF)>>
TreeSelf == <<Blob(PathP)>>
TreeOut == <<Tree(PathP), Blob(PathQ)>>

\* what a directory Inject may meet: a failed or empty listing, one or two files
\* listed in either order, a file that cannot be fetched, a failed revision
\* lookup, a failing filesystem call
DirEnvs(target) ==
    LET two == {TreeFG, TreeGF}
    IN  {Env(Remote(Resp404, Resp404, Resp404, TRUE, <<>>, ShaS), IoOK),
         Env(Remote(Resp200(DataA), Resp200(DataB), Resp404, FALSE, TreeOut, ShaS), IoOK)}
        \cup {Env(Remote(r1, Resp404, Resp404, FALSE, tree, ShaS), IoOK) :
                r1 \in {Resp200(DataA), Resp200(DataB)}, tree \in {TreeF, TreeSelf}}
        \cup {Env(Remote(r1, r2, Resp404, FALSE, tree, ShaS), IoOK) :
                r1 \in {Resp200(DataA), Resp500}, r2 \in {Resp200(DataB), Resp500},
                tree \in two}
        \cup {Env(Remote(Resp200(DataA), Resp200(DataB), Resp404, FALSE, tree, <<>>), IoOK) :
                tree \in {TreeF, TreeFG}}
        \cup {Env(Remote(Resp200(DataA), Resp200(DataB), Resp404, FALSE, TreeFG, ShaS), io) :
                io \in {[IoOK EXCEPT !.failMkdir = TRUE],
                        [IoOK EXCEPT !.failWrite = {Join(target, <<"g">>)}]}}

EnvsFor(t, name) ==
    LET target == Join(rootDir, TargetPath(t, name))
    IN  IF IsDirectory(t) THEN DirEnvs(target) ELSE FileEnvs(target)

\* what an Inject meets when whole commands are run one after another: the fetch
\* works, or the host fails (for a directory, after its first file was written)
CmdEnvs(t) ==
    IF IsDirectory(t)
    THEN {Env(Remote(Resp200(DataA), r2, Resp404, FALSE, TreeFG, ShaS), IoOK) :
            r2 \in {Resp200(DataB), Resp500}}
    ELSE {Env(Remote(r1, Resp404, Resp404, TRUE, <<>>, ShaS), IoOK) :
            r1 \in {Resp200(DataA), Resp500}}

\* the (type, name) pairs the commands are given
Assets == {<<Agents, NameA>>, <<Skills, NameA>>, <<Skills, NameBA>>}
Args == Assets \cup {<<Widgets, NameA>>}

----------------------------------------------------------------------------
(* What is remembered of the last command, for the properties *)

Last(op, t, name, ref, err, wrote, trace) ==
    [op |-> op, type |-> t, name |-> name, ref |-> ref, err |-> err, wrote |-> wrote,
     trace |-> trace, strict |-> FALSE]

NoEnv == Env(Remote(Resp404, Resp404, Resp404, TRUE, <<>>, <<>>), IoOK)

NoInject ==
    [called |-> FALSE, type |-> "", name |-> <<>>, ref |-> <<>>, existed |-> FALSE,
     err |-> None, calls |-> <<>>, requested |-> <<>>, sha |-> <<>>, data |-> <<>>,
     result |-> [Type |-> "", Name |-> <<>>, Ref |-> <<>>, TargetPath |-> <<>>, SHA |-> <<>>],
     now |-> 0, env |-> NoEnv]

\* the last call of Inject: its arguments, whether the target existed before it,
\* what the host and the filesystem were set to answer, and what it returned
InjectRecord(t, name, rawRef, existed, r, now, env) ==
    [called |-> TRUE, type |-> t, name |-> name, ref |-> rawRef, existed |-> existed,
     err |-> r.err, calls |-> r.calls, requested |-> r.requested, sha |-> r.sha,
     data |-> r.data, result |-> r.result, now |-> now, env |-> env]

----------------------------------------------------------------------------
(* The commands.  fail names the step of the command that fails for a reason  *)
(* outside the program (unreadable file, no token, full disk), or is None.    *)
(* A save that fails leaves the file as it was.                               *)

\* the new state a command leaves
After(m, doc, f, lk, i, l) ==
    [manifestFile |-> m, lockFile |-> doc, fs |-> f, lock |-> lk, inj |-> i, last |-> l]

\* runUse up to Inject: the error it returns before anything is touched, or None
useRejected(typeName, rawRef, fail) ==
    IF ~IsValid(typeName) THEN "invalid asset type"
    ELSE IF ParseRef(rawRef).err THEN "invalid reference"
    ELSE IF fail = "loadManifest" THEN "loading manifest"
    ELSE IF fail = "loadLock" THEN "loading lock file"
    ELSE IF fail = "auth" THEN "auth"
    ELSE None

\* runUse that has set and saved the manifest entry before it looks at what
\* Inject returned
runUseInjectedSaveFirst(typeName, name, rawRef, env, fail, now, existed, r) ==
    LET m == ManifestSet(manifestFile, typeName, name, rawRef)
        end(mf, doc, err, wrote, trace) ==
            After(mf, doc, r.fs, r.lock, InjectRecord(typeName, name, rawRef, existed, r, now,
                                                      env),
                  Last("use", typeName, name, rawRef, err, wrote, trace))
    IN  IF fail = "saveManifest" THEN end(manifestFile, lockFile, "saving manifest", {},
                                          <<"Inject", "m.Set", "m.Save">>)
        ELSE IF r.err # None THEN end(m, lockFile, "failed to download", {"manifest"},
                                      <<"Inject", "m.Set", "m.Save">>)
        ELSE IF fail = "saveLock" THEN end(m, lockFile, "saving lock file", {"manifest"},
                                           <<"Inject", "m.Set", "m.Save", "lock.Save">>)
        ELSE end(m, LockSave(r.lock), None, {"manifest", "lock"},
                 <<"Inject", "m.Set", "m.Save", "lock.Save">>)

\* runUse from the return of Inject on: r is what Inject returned
runUseInjected(typeName, name, rawRef, env, fail, now, existed, r) ==
    LET m == ManifestSet(manifestFile, typeName, name, rawRef)
        end(mf, doc, err, wrote, trace) ==
            After(mf, doc, r.fs, r.lock, InjectRecord(typeName, name, rawRef, existed, r, now,
                                                      env),
                  Last("use", typeName, name, rawRef, err, wrote, trace))
    IN  IF r.err # None THEN end(manifestFile, lockFile, "failed to download", {}, <<"Inject">>)
        ELSE IF fail = "saveManifest" THEN end(manifestFile, lockFile, "saving manifest", {},
                                               <<"Inject", "m.Set", "m.Save">>)
        ELSE IF fail = "saveLock" THEN end(m, lockFile, "saving lock file", {"manifest"},
                                           <<"Inject", "m.Set", "m.Save", "lock.Save">>)
        ELSE end(m, LockSave(r.lock), None, {"manifest", "lock"},
                 <<"Inject", "m.Set", "m.Save", "lock.Save">>)

\* runUse
runUse(typeName, name, rawRef, env, fail, now) ==
    LET rejected == useRejected(typeName, rawRef, fail)
    IN  IF rejected # None
        THEN After(manifestFile, lockFile, fs, NewLockFile, NoInject,
                   Last("use", typeName, name, rawRef, rejected, {}, <<>>))
        ELSE runUseInjected(typeName, name, rawRef, env, fail, now,
                 Exists(fs, Join(rootDir, TargetPath(typeName, name))),
                 Inject(LoadLock(lockFile), fs, typeName, name, rawRef, env.remote, env.io, now))

\* the error a command returns when the step that fail names fails
FailErr(fail) ==
    CASE fail = "loadManifest" -> "loading manifest"
      [] fail = "loadLock" -> "loading lock file"
      [] fail = "auth" -> "auth"
      [] fail = "removeAll" -> "deleting"
      [] fail = "saveManifest" -> "saving manifest"
      [] fail = "saveLock" -> "saving lock file"
      [] OTHER -> None

\* runUnuseWith that goes on when the manifest did not declare the entry
runUnuseWithAnyway(typeName, name, fail) ==
    LET lk2 == LockRemove(LoadLock(lockFile), typeName, name)
    IN  IF ~IsValid(typeName) \/ fail # None
        THEN After(manifestFile, lockFile, fs, NewLockFile, NoInject,
                   Last("unuse", typeName, name, <<>>,
                        IF ~IsValid(typeName) THEN "invalid asset type" ELSE FailErr(fail),
                        {}, <<>>))
        ELSE After(ManifestRemove(manifestFile, typeName, name).m, LockSave(lk2),
                   RemoveAll(fs, Join(rootDir, TargetPath(typeName, name)), FALSE).fs, lk2,
                   NoInject,
                   Last("unuse", typeName, name, <<>>, None, {"manifest", "lock"},
                        <<"m.Remove", "RemoveAll", "lock.Remove", "m.Save", "lock.Save">>))

\* runUnuseWith that leaves the target where it is
runUnuseWithKeepFiles(typeName, name, fail) ==
    LET rem == ManifestRemove(manifestFile, typeName, name)
        lk2 == LockRemove(LoadLock(lockFile), typeName, name)
    IN  IF ~IsValid(typeName) \/ fail # None \/ ~rem.removed
        THEN After(manifestFile, lockFile, fs, NewLockFile, NoInject,
                   Last("unuse", typeName, name, <<>>,
                        IF ~IsValid(typeName) THEN "invalid asset type"
                        ELSE IF fail # None THEN FailErr(fail)
                        ELSE "not found in copilot.toml",
                        {}, <<>>))
        ELSE After(rem.m, LockSave(lk2), fs, lk2, NoInject,
                   Last("unuse", typeName, name, <<>>, None, {"manifest", "lock"},
                        <<"m.Remove", "RemoveAll", "lock.Remove", "m.Save", "lock.Save">>))

\* runUnuseWith
runUnuseWith(typeName, name, fail) ==
    LET stay(err) == After(manifestFile, lockFile, fs, NewLockFile, NoInject,
                           Last("unuse", typeName, name, <<>>, err, {}, <<>>))
        lk == LoadLock(lockFile)
        rem == ManifestRemove(manifestFile, typeName, name)
        targetPath == Join(rootDir, TargetPath(typeName, name))
        rm == RemoveAll(fs, targetPath, fail = "removeAll")
        lk2 == LockRemove(lk, typeName, name)
        end(mf, doc, lkm, err, wrote, trace) ==
            After(mf, doc, rm.fs, lkm, NoInject,
                  Last("unuse", typeName, name, <<>>, err, wrote, trace))
    IN  IF ~IsValid(typeName) THEN stay("invalid asset type")
        ELSE IF fail = "loadManifest" THEN stay("loading manifest")
        ELSE IF fail = "loadLock" THEN stay("loading lock file")
        ELSE IF ~rem.removed THEN stay("not found in copilot.toml")
        ELSE IF rm.err THEN end(manifestFile, lockFile, lk, "deleting", {},
                                <<"m.Remove", "RemoveAll">>)
        ELSE IF fail = "saveManifest"
             THEN end(manifestFile, lockFile, lk2, "saving manifest", {},
                      <<"m.Remove", "RemoveAll", "lock.Remove", "m.Save">>)
        ELSE IF fail = "saveLock"
             THEN end(rem.m, lockFile, lk2, "saving lock file", {"manifest"},
                      <<"m.Remove", "RemoveAll", "lock.Remove", "m.Save", "lock.Save">>)
        ELSE end(rem.m, LockSave(lk2), lk2, None, {"manifest", "lock"},
                 <<"m.Remove", "RemoveAll", "lock.Remove", "m.Save", "lock.Save">>)

\* runCheck from the return of CheckAssets on: the issues are counted
runCheckReport(strict, res) ==
    LET issues == Cardinality({i \in 1..Len(res) : res[i].Status # CheckOK})
    IN  [results |-> res, err |-> IF issues > 0 /\ strict THEN "issues" ELSE None]

\* runCheck: the results, and the error that --strict turns the issues into
runCheck(strict, es, fail) ==
    IF fail = "loadManifest" THEN [results |-> <<>>, err |-> FailErr(fail)]
    ELSE IF Len(es) = 0 THEN [results |-> <<>>, err |-> None]
    ELSE IF fail = "loadLock" THEN [results |-> <<>>, err |-> FailErr(fail)]
    ELSE runCheckReport(strict, CheckAssets(es, LoadLock(lockFile), fs))

----------------------------------------------------------------------------
(* The state machine of the commands *)

NotParsed == [state |-> "none", ref |-> ParseErr, text |-> <<>>, again |-> ParseErr]

Init ==
    /\ manifestFile = NewManifest
    /\ lockFile = NoLockDoc
    /\ fs = EmptyMap
    /\ pc = "idle"
    /\ lock = NewLockFile
    /\ todo = <<>>
    /\ errors = <<>>
    /\ done = <<>>
    /\ clock = 0
    /\ last = Last("start", "", <<>>, <<>>, None, {}, <<>>)
    /\ inj = NoInject
    /\ raw = <<>>
    /\ parsed = NotParsed
    /\ entries = <<>>
    /\ results = <<>>

Idle == pc = "idle" /\ clock < MaxOps

Become(a) ==
    /\ manifestFile' = a.manifestFile
    /\ lockFile' = a.lockFile
    /\ fs' = a.fs
    /\ lock' = a.lock
    /\ inj' = a.inj
    /\ last' = a.last

UseFails == {"loadManifest", "loadLock", "auth", "saveManifest", "saveLock"}

\* cops <type> use <name> <ref>: a failure before Inject needs no remote answer,
\* a failure after it needs Inject to have succeeded
RunUse ==
    /\ Idle
    /\ \E arg \in Args, rawRef \in RawRefs, fail \in UseFails \cup {None} :
         IF useRejected(arg[1], rawRef, fail) # None
         THEN /\ useRejected(arg[1], rawRef, None) # None => fail = None
              /\ Become(runUse(arg[1], arg[2], rawRef, NoEnv, fail, clock + 1))
         ELSE \E env \in CmdEnvs(arg[1]) :
                \E a \in {runUse(arg[1], arg[2], rawRef, env, fail, clock + 1)} :
                   /\ fail # None => a.inj.err = None
                   /\ Become(a)
    /\ clock' = clock + 1
    /\ todo' = <<>> /\ errors' = <<>> /\ done' = <<>>
    /\ UNCHANGED <<pc, raw, parsed, entries, results>>

\* cops <type> unuse <name>: a step is told to fail only where the command
\* gets to it
RunUnuse ==
    /\ Idle
    /\ \E arg \in Args,
          fail \in {None, "loadManifest", "loadLock", "removeAll", "saveManifest", "saveLock"} :
            \E a \in {runUnuseWith(arg[1], arg[2], fail)} :
               /\ fail # None => a.last.err = FailErr(fail)
               /\ Become(a)
    /\ clock' = clock + 1
    /\ todo' = <<>> /\ errors' = <<>> /\ done' = <<>>
    /\ UNCHANGED <<pc, raw, parsed, entries, results>>

\* cops sync, up to the loop: runSync and the head of runSyncWith
SyncBegin ==
    /\ Idle
    /\ \E fail \in {None, "auth", "loadManifest", "loadLock"}, order \in AllEntries(manifestFile) :
         LET err == IF fail \in {"auth", "loadManifest"} THEN fail
                    ELSE IF Len(order) = 0 THEN None
                    ELSE IF fail = "loadLock" THEN fail
                    ELSE "running"
         IN  /\ pc' = IF err = "running" THEN "sync" ELSE "idle"
             /\ todo' = IF err = "running" THEN order ELSE <<>>
             /\ lock' = IF err = "running" THEN LoadLock(lockFile) ELSE NewLockFile
             /\ last' = Last("sync", "", <<>>, <<>>, err, {}, <<>>)
    /\ clock' = clock + 1
    /\ inj' = NoInject
    /\ errors' = <<>> /\ done' = <<>>
    /\ UNCHANGED <<manifestFile, lockFile, fs, raw, parsed, entries, results>>

\* a loop of runSyncWith that ends at the first entry that fails
SyncInjectStop ==
    /\ pc = "sync" /\ todo # <<>>
    /\ LET entry == Head(todo)
       IN  \E env \in CmdEnvs(entry.Type) :
             \E r \in {Inject(lock, fs, entry.Type, entry.Name, entry.Ref, env.remote, env.io,
                                clock)} :
                 /\ lock' = r.lock
                 /\ fs' = r.fs
                 /\ inj' = InjectRecord(entry.Type, entry.Name, entry.Ref,
                                        Exists(fs, Join(rootDir,
                                                        TargetPath(entry.Type, entry.Name))),
                                        r, clock, env)
                 /\ errors' = IF r.err # None THEN Append(errors, entry) ELSE errors
                 /\ done' = IF r.err = None THEN Append(done, entry) ELSE done
                 /\ todo' = IF r.err # None THEN <<>> ELSE Tail(todo)
    /\ UNCHANGED <<manifestFile, lockFile, pc, clock, last, raw, parsed, entries, results>>

\* one turn of the loop of runSyncWith: Inject for the next entry
SyncInject ==
    /\ pc = "sync" /\ todo # <<>>
    /\ LET entry == Head(todo)
       IN  \E env \in CmdEnvs(entry.Type) :
             \E r \in {Inject(lock, fs, entry.Type, entry.Name, entry.Ref, env.remote, env.io,
                                clock)} :
                 /\ lock' = r.lock
                 /\ fs' = r.fs
                 /\ inj' = InjectRecord(entry.Type, entry.Name, entry.Ref,
                                        Exists(fs, Join(rootDir,
                                                        TargetPath(entry.Type, entry.Name))),
                                        r, clock, env)
                 /\ errors' = IF r.err # None THEN Append(errors, entry) ELSE errors
                 /\ done' = IF r.err = None THEN Append(done, entry) ELSE done
    /\ todo' = Tail(todo)
    /\ UNCHANGED <<manifestFile, lockFile, pc, clock, last, raw, parsed, entries, results>>

\* the tail of runSyncWith: the lock is saved, the errors are counted
SyncEnd ==
    /\ pc = "sync" /\ todo = <<>>
    /\ \E fail \in {None, "saveLock"} :
         /\ lockFile' = IF fail = None THEN LockSave(lock) ELSE lockFile
         /\ last' = Last("sync", "", <<>>, <<>>,
                         IF fail # None THEN "saving lock file"
                         ELSE IF Len(errors) > 0 THEN "sync completed with errors" ELSE None,
                         IF fail = None THEN {"lock"} ELSE {}, <<"lock.Save">>)
    /\ pc' = "idle"
    /\ UNCHANGED <<manifestFile, fs, lock, todo, errors, done, clock, inj, raw, parsed,
                   entries, results>>

\* cops check [--strict]
RunCheck ==
    /\ Idle
    /\ \E strict \in BOOLEAN, es \in AllEntries(manifestFile),
          fail \in {None, "loadManifest", "loadLock"} :
         \E c \in {runCheck(strict, es, fail)} :
             /\ fail # None => c.err = FailErr(fail)
             /\ entries' = es
             /\ results' = c.results
             /\ last' = [Last("check", "", <<>>, <<>>, c.err, {}, <<>>) EXCEPT !.strict = strict]
    /\ clock' = clock + 1
    /\ inj' = NoInject /\ lock' = NewLockFile
    /\ todo' = <<>> /\ errors' = <<>> /\ done' = <<>>
    /\ UNCHANGED <<manifestFile, lockFile, fs, pc, raw, parsed>>

\* copilot.toml edited by hand: an entry set or removed
EditManifest ==
    /\ Idle
    /\ \E arg \in Assets :
         \/ \E ref \in RawRefs :
              /\ (IF arg[2] \in DOMAIN manifestFile[arg[1]]
                  THEN manifestFile[arg[1]][arg[2]] # ref ELSE TRUE)
              /\ manifestFile' = ManifestSet(manifestFile, arg[1], arg[2], ref)
         \/ /\ arg[2] \in DOMAIN manifestFile[arg[1]]
            /\ manifestFile' = ManifestRemove(manifestFile, arg[1], arg[2]).m
    /\ last' = Last("edit", "", <<>>, <<>>, None, {}, <<>>)
    /\ clock' = clock + 1
    /\ inj' = NoInject /\ lock' = NewLockFile
    /\ todo' = <<>> /\ errors' = <<>> /\ done' = <<>>
    /\ UNCHANGED <<lockFile, fs, pc, raw, parsed, entries, results>>

\* a synced file rewritten, or a target deleted, by someone else
TouchFiles ==
    /\ Idle
    /\ \/ \E p \in DOMAIN fs, d \in {DataA, DataB} :
            /\ ~fs[p].dir /\ fs[p].data # d
            /\ fs' = MapPut(fs, p, FileNode(d))
       \/ \E arg \in Assets :
            /\ Exists(fs, TargetPath(arg[1], arg[2]))
            /\ fs' = RemoveAll(fs, TargetPath(arg[1], arg[2]), FALSE).fs
    /\ last' = Last("touch", "", <<>>, <<>>, None, {}, <<>>)
    /\ clock' = clock + 1
    /\ inj' = NoInject /\ lock' = NewLockFile
    /\ todo' = <<>> /\ errors' = <<>> /\ done' = <<>>
    /\ UNCHANGED <<manifestFile, lockFile, pc, raw, parsed, entries, results>>

Next ==
    \/ RunUse
    \/ RunUnuse
    \/ SyncBegin
    \/ SyncInject
    \/ SyncEnd
    \/ RunCheck
    \/ EditManifest
    \/ TouchFiles

Spec == Init /\ [][Next]_vars

----------------------------------------------------------------------------
(* Inject on its own: one Injector, its lock in memory, called up to          *)
(* MaxInjects times with everything a call may meet                          *)

DoInject ==
    /\ pc = "idle" /\ clock < MaxInjects
    /\ \E arg \in Assets, rawRef \in RawRefs :
         \E env \in EnvsFor(arg[1], arg[2]) :
           \E r \in {Inject(lock, fs, arg[1], arg[2], rawRef, env.remote, env.io, clock + 1)} :
              /\ lock' = r.lock
              /\ fs' = r.fs
              /\ inj' = InjectRecord(arg[1], arg[2], rawRef,
                                     Exists(fs, Join(rootDir, TargetPath(arg[1], arg[2]))),
                                     r, clock + 1, env)
              /\ last' = Last("inject", arg[1], arg[2], rawRef, r.err, {}, <<>>)
    /\ clock' = clock + 1
    /\ UNCHANGED <<manifestFile, lockFile, pc, todo, errors, done, raw, parsed, entries,
                   results>>

NextInject == DoInject

SpecInject == Init /\ [][NextInject]_vars

----------------------------------------------------------------------------
(* ParseRef and Raw on their own: every string over Chars up to MaxRawLen is  *)
(* parsed, what was accepted is written back and parsed again                 *)

InitRef ==
    /\ raw \in StringsUpTo(MaxRawLen)
    /\ parsed = NotParsed
    /\ manifestFile = NewManifest
    /\ lockFile = NoLockDoc
    /\ fs = EmptyMap
    /\ pc = "idle"
    /\ lock = NewLockFile
    /\ todo = <<>>
    /\ errors = <<>>
    /\ done = <<>>
    /\ clock = 0
    /\ last = Last("start", "", <<>>, <<>>, None, {}, <<>>)
    /\ inj = NoInject
    /\ entries = <<>>
    /\ results = <<>>

DoParseRef ==
    /\ parsed.state = "none"
    /\ parsed' = [parsed EXCEPT !.state = "parsed", !.ref = ParseRef(raw)]
    /\ UNCHANGED <<manifestFile, lockFile, fs, pc, lock, todo, errors, done, clock, last, inj,
                   raw, entries, results>>

DoRaw ==
    /\ parsed.state = "parsed"
    /\ ~parsed.ref.err
    /\ parsed' = [state |-> "raw", ref |-> parsed.ref, text |-> Raw(parsed.ref),
                  again |-> ParseRef(Raw(parsed.ref))]
    /\ UNCHANGED <<manifestFile, lockFile, fs, pc, lock, todo, errors, done, clock, last, inj,
                   raw, entries, results>>

NextRef ==
    \/ DoParseRef
    \/ DoRaw

SpecRef == InitRef /\ [][NextRef]_vars

----------------------------------------------------------------------------
(* Raw and ParseRef the other way round: an AssetRef is built field by field, *)
(* as the struct allows, with every non-empty field over Chars up to          *)
(* MaxFieldLen; it is written out and what was written is parsed              *)

Fields == StringsUpTo(MaxFieldLen) \ {<<>>}

ValidRefs ==
    {[err |-> FALSE, Org |-> o, Repo |-> r, Path |-> p, Ref |-> v] :
        o \in Fields, r \in Fields, p \in Fields, v \in Fields}

InitBuilt ==
    /\ raw = <<>>
    /\ \E x \in ValidRefs : parsed = [state |-> "built", ref |-> x, text |-> <<>>,
                                      again |-> ParseErr]
    /\ manifestFile = NewManifest
    /\ lockFile = NoLockDoc
    /\ fs = EmptyMap
    /\ pc = "idle"
    /\ lock = NewLockFile
    /\ todo = <<>>
    /\ errors = <<>>
    /\ done = <<>>
    /\ clock = 0
    /\ last = Last("start", "", <<>>, <<>>, None, {}, <<>>)
    /\ inj = NoInject
    /\ entries = <<>>
    /\ results = <<>>

DoRawBuilt ==
    /\ parsed.state = "built"
    /\ parsed' = [parsed EXCEPT !.state = "text", !.text = Raw(parsed.ref)]
    /\ UNCHANGED <<manifestFile, lockFile, fs, pc, lock, todo, errors, done, clock, last, inj,
                   raw, entries, results>>

DoParseBuilt ==
    /\ parsed.state = "text"
    /\ parsed' = [parsed EXCEPT !.state = "reparsed", !.again = ParseRef(parsed.text)]
    /\ UNCHANGED <<manifestFile, lockFile, fs, pc, lock, todo, errors, done, clock, last, inj,
                   raw, entries, results>>

NextBuilt ==
    \/ DoRawBuilt
    \/ DoParseBuilt

SpecBuilt == InitBuilt /\ [][NextBuilt]_vars

----------------------------------------------------------------------------
(* One sync pass as a whole, over a manifest that someone wrote, in a fresh   *)
(* project and against one state of the host: the order of the pass is the    *)
(* order in which AllEntries happens to range over the maps                   *)

\* the loop of runSyncWith from the i-th entry of the order on
RECURSIVE syncPass(_, _, _, _, _, _, _)
syncPass(order, i, lk, f, failed, env, now) ==
    IF i > Len(order) THEN [lock |-> lk, fs |-> f, errors |-> failed]
    ELSE LET entry == order[i]
             r == Inject(lk, f, entry.Type, entry.Name, entry.Ref, env.remote, env.io, now)
         IN  syncPass(order, i + 1, r.lock, r.fs,
                      IF r.err # None THEN Append(failed, entry) ELSE failed, env, now)

\* the host: the file p and the directory p with the files p/f and p/g, each
\* file served or not
OrderRemotes ==
    {Remote(r1, r2, Resp404, FALSE, TreeFG, ShaS) :
        r1 \in {Resp200(DataA), Resp500}, r2 \in {Resp200(DataB), Resp500}}

\* the manifests that declare each asset with a reference or not at all
OrderManifests ==
    {[t \in AllTypes |->
        [n \in {a[2] : a \in {x \in Assets : x[1] = t /\ refs[x] # <<>>}} |-> refs[<<t, n>>]]] :
        refs \in [Assets -> GoodRefs \cup {<<>>}]}

InitOrder ==
    /\ manifestFile \in OrderManifests
    /\ lockFile = NoLockDoc
    /\ fs = EmptyMap
    /\ pc = "idle"
    /\ lock = NewLockFile
    /\ todo = <<>>
    /\ errors = <<>>
    /\ done = <<>>
    /\ clock = 0
    /\ last = Last("start", "", <<>>, <<>>, None, {}, <<>>)
    /\ inj = NoInject
    /\ raw = <<>>
    /\ parsed = NotParsed
    /\ entries = <<>>
    /\ results = <<>>

\* runSyncWith as one step: nothing to sync, or the pass and the save
DoSyncPass ==
    /\ last.op = "start"
    /\ \E order \in AllEntries(manifestFile), remote \in OrderRemotes :
         IF Len(order) = 0
         THEN /\ last' = Last("sync", "", <<>>, <<>>, None, {}, <<>>)
              /\ UNCHANGED <<lockFile, fs, lock, errors, entries, inj>>
         ELSE \E r \in {syncPass(order, 1, LoadLock(lockFile), fs, <<>>, Env(remote, IoOK),
                                  clock + 1)} :
                /\ lock' = r.lock
                /\ fs' = r.fs
                /\ lockFile' = LockSave(r.lock)
                /\ errors' = r.errors
                /\ entries' = order
                /\ inj' = [NoInject EXCEPT !.env = Env(remote, IoOK)]
                /\ last' = Last("sync", "", <<>>, <<>>,
                                IF Len(r.errors) > 0 THEN "sync completed with errors"
                                ELSE None,
                                {"lock"}, <<"lock.Save">>)
    /\ clock' = clock + 1
    /\ UNCHANGED <<manifestFile, pc, todo, done, raw, parsed, results>>

NextOrder == DoSyncPass

SpecOrder == InitOrder /\ [][NextOrder]_vars

----------------------------------------------------------------------------
(* Single-file Inject of a reference to a branch or to "latest" while the     *)
(* branch moves: the host answers the revision lookup from the head of the    *)
(* branch at that time and the download from the head at the later time       *)

\* the commits of the branch, oldest first, with the content of the file in each
History ==
    <<[sha |-> <<"s">>, body |-> DataA],
      [sha |-> <<"t">>, body |-> DataB],
      [sha |-> <<"u">>, body |-> DataA \o DataB]>>

RefBranch == <<"o", "/", "r", "/", "p", "@", "m">>
RefLatest == <<"o", "/", "r", "/", "p", "@">> \o Latest

\* the head is at commit i when ResolveSHA asks and at commit j when
\* DownloadFile asks
MovingEnvs ==
    {Env(Remote(Resp200(History[p[2]].body), Resp404, Resp404, TRUE, <<>>, History[p[1]].sha), IoOK) :
        p \in {q \in (1..Len(History)) \X (1..Len(History)) : q[1] <= q[2]}}

\* the single-file assets that are injected
MovingAssets == {<<Agents, NameA>>, <<Agents, NameBA>>, <<Prompts, NameA>>}

DoInjectMoving ==
    /\ pc = "idle" /\ clock < MaxInjects
    /\ \E arg \in MovingAssets, rawRef \in {RefBranch, RefLatest}, env \in MovingEnvs :
         \E r \in {Inject(lock, fs, arg[1], arg[2], rawRef, env.remote, env.io, clock + 1)} :
            /\ lock' = r.lock
            /\ fs' = r.fs
            /\ inj' = InjectRecord(arg[1], arg[2], rawRef,
                                   Exists(fs, Join(rootDir, TargetPath(arg[1], arg[2]))),
                                   r, clock + 1, env)
            /\ last' = Last("inject", arg[1], arg[2], rawRef, r.err, {}, <<>>)
    /\ clock' = clock + 1
    /\ UNCHANGED <<manifestFile, lockFile, pc, todo, errors, done, raw, parsed, entries,
                   results>>

NextMoving == DoInjectMoving

SpecMoving == Init /\ [][NextMoving]_vars

----------------------------------------------------------------------------
(* CheckAssets on its own: every list of up to MaxEntries declared entries,   *)
(* against every lock and every set of targets present                        *)

CheckEntries == {[Type |-> a[1], Name |-> a[2], Ref |-> r] : a \in Assets, r \in GoodRefs}

EntryLists == UNION {[1..n -> CheckEntries] : n \in 0..MaxEntries}

\* the lock that holds, for each asset that refs gives a reference, an entry with it
LockOf(refs) ==
    [Version |-> 1,
     Entries |-> [k \in {entryKey(a[1], a[2]) : a \in {x \in Assets : refs[x] # <<>>}} |->
                    LET a == CHOOSE x \in Assets : entryKey(x[1], x[2]) = k
                    IN  [Type |-> a[1], Name |-> a[2], Ref |-> refs[a], ResolvedSHA |-> ShaS,
                         TargetPath |-> TargetPath(a[1], a[2]), Checksum |-> checksum(DataA),
                         SyncedAt |-> 1]]]

LockDocs == {NoLockDoc} \cup {LockSave(LockOf(refs)) : refs \in [Assets -> GoodRefs \cup {<<>>}]}

\* the filesystem in which the targets of exactly the assets in S are present
FsOf(S) ==
    [p \in UNION {Ancestors(TargetPath(a[1], a[2])) : a \in S} |->
        IF \E a \in S : ~IsDirectory(a[1]) /\ p = TargetPath(a[1], a[2])
        THEN FileNode(DataA) ELSE DirNode]

FsStates == {FsOf(S) : S \in SUBSET Assets}

InitCheck ==
    /\ entries \in EntryLists
    /\ lockFile \in LockDocs
    /\ fs \in FsStates
    /\ results = <<>>
    /\ manifestFile = NewManifest
    /\ pc = "idle"
    /\ lock = NewLockFile
    /\ todo = <<>>
    /\ errors = <<>>
    /\ done = <<>>
    /\ clock = 0
    /\ last = Last("start", "", <<>>, <<>>, None, {}, <<>>)
    /\ inj = NoInject
    /\ raw = <<>>
    /\ parsed = NotParsed

DoCheckAssets ==
    /\ pc = "idle"
    /\ results' = CheckAssets(entries, LoadLock(lockFile), fs)
    /\ pc' = "checked"
    /\ UNCHANGED <<manifestFile, lockFile, fs, lock, todo, errors, done, clock, last, inj, raw,
                   parsed, entries>>

NextCheck == DoCheckAssets

SpecCheck == InitCheck /\ [][NextCheck]_vars

----------------------------------------------------------------------------
(* What the properties read off a state *)

\* whether the saved lock file holds an entry under the key, and that entry
DocHas(doc, key) == \E j \in 1..Len(doc.entries) : doc.entries[j][1] = key

DocEntry(doc, key) ==
    doc.entries[CHOOSE j \in 1..Len(doc.entries) : doc.entries[j][1] = key][2]

\* whether copilot.toml declares (t, n)
Declared(t, n) == t \in DOMAIN manifestFile /\ n \in DOMAIN manifestFile[t]

DeclaredEntries ==
    UNION {{[Type |-> t, Name |-> n, Ref |-> manifestFile[t][n]] : n \in DOMAIN manifestFile[t]} :
             t \in AllTypes}

\* a comes before b in the trace of calls
Before(trace, a, b) ==
    \E i \in 1..Len(trace), j \in 1..Len(trace) : i < j /\ trace[i] = a /\ trace[j] = b

\* the digest of what is on disk at the target of (t, n): the bytes of the
\* file, or of the files under the directory in the order of their paths
DiskChecksum(t, n) ==
    LET target == TargetPath(t, n)
        under == {q \in DOMAIN fs : IsUnder(q, target) /\ ~fs[q].dir}
    IN  IF ~fs[target].dir THEN <<"sha256">> \o fs[target].data
        ELSE <<"sha256">> \o computeDirectoryChecksum([q \in under |-> fs[q].data])

\* the errors that come from outside the program
EnvErrs == {"loading manifest", "loading lock file", "deleting", "saving manifest",
            "saving lock file"}

----------------------------------------------------------------------------
(* Properties *)

\* C1: CheckAssets returns one result per declared entry, in input order, with
\* the status of the table: NeverSynced (no target, no lock entry), FileMissing
\* (no target, lock entry), NotInLock (target, no lock entry), RefMismatch
\* (target, lock entry with another ref), OK (target, lock entry with the ref).
C1_Table ==
    pc = "checked" =>
        /\ Len(results) = Len(entries)
        /\ \A i \in 1..Len(entries) :
             LET e == entries[i]
                 key == <<e.Type, "/">> \o e.Name
                 present == TargetPath(e.Type, e.Name) \in DOMAIN fs
                 locked == DocHas(lockFile, key)
             IN  /\ results[i].Type = e.Type
                 /\ results[i].Name = e.Name
                 /\ results[i].Status =
                      IF ~present THEN (IF locked THEN "FileMissing" ELSE "NeverSynced")
                      ELSE IF ~locked THEN "NotInLock"
                      ELSE IF DocEntry(lockFile, key).Ref # e.Ref THEN "RefMismatch"
                      ELSE "OK"

C1_Witness ==
    /\ pc = "checked"
    /\ Len(results) = 2
    /\ results[1].Status = CheckRefMismatch
    /\ results[2].Status = CheckFileMissing

\* C2: after a use has succeeded for an entry, or a sync has succeeded for it
\* and saved the lock, and nothing else has changed, the drift check gives that
\* entry the status OK.
C2_SyncedIsOK ==
    /\ (last.op = "use" /\ last.err = None) =>
          CheckStatus([Type |-> last.type, Name |-> last.name, Ref |-> last.ref],
                      LoadLock(lockFile), fs) = CheckOK
    /\ (last.op = "sync" /\ last.trace = <<"lock.Save">> /\ "lock" \in last.wrote) =>
          \A i \in 1..Len(done) : CheckStatus(done[i], LoadLock(lockFile), fs) = CheckOK

\* the pass of sync over the entries has ended
SyncEnded == last.op = "sync" /\ last.trace = <<"lock.Save">>

\* Inject was attempted exactly once for every declared entry
AttemptedOnce ==
    /\ Len(done) + Len(errors) = Cardinality(DeclaredEntries)
    /\ \A e \in DeclaredEntries :
         \/ \E i \in 1..Len(done) : done[i] = e
         \/ \E i \in 1..Len(errors) : errors[i] = e

\* the lock file holds exactly the lock the pass has built up in memory
LockPersisted ==
    /\ lockFile.exists
    /\ Len(lockFile.entries) = Cardinality(DOMAIN lock.Entries)
    /\ \A k \in DOMAIN lock.Entries : DocHas(lockFile, k) /\ DocEntry(lockFile, k) = lock.Entries[k]
    /\ Len(done) > 0 => Len(lockFile.entries) > 0

C4_FileInject ==
    (inj.called /\ inj.err = None /\ ~IsDirectory(inj.type)) =>
        LET target == TargetPath(inj.type, inj.name)
            key == <<inj.type, "/">> \o inj.name
            served == inj.env.remote.get[inj.requested[Len(inj.requested)]]
        IN  /\ served.st = "200"
            /\ target \in DOMAIN fs
            /\ fs[target] = [dir |-> FALSE, data |-> served.body]
            /\ inj.existed => Before(inj.calls, "Remove", "WriteFile")
            /\ key \in DOMAIN lock.Entries
            /\ lock.Entries[key] =
                 [Type |-> inj.type, Name |-> inj.name, Ref |-> inj.ref,
                  ResolvedSHA |-> inj.env.remote.sha, TargetPath |-> target,
                  Checksum |-> <<"sha256">> \o served.body, SyncedAt |-> inj.now]

C4_Witness ==
    /\ inj.called /\ inj.err = None /\ inj.type = Agents
    /\ inj.existed
    /\ inj.ref = RefW
    /\ inj.data = DataB
    /\ inj.now = 2

\* C5: after a successful directory Inject of (skills, name), the lock looked up
\* with ("skills", name) has an entry with that name, the raw ref and the target
\* path of (skills, name), for every name, one with "/" in it included.
C5_DirInject ==
    (inj.called /\ inj.err = None /\ IsDirectory(inj.type)) =>
        LET got == LockGet(lock, Skills, inj.name)
        IN  /\ got.ok
            /\ got.e.Name = inj.name
            /\ got.e.Ref = inj.ref
            /\ got.e.TargetPath = TargetPath(Skills, inj.name)

\* C6: unuse of a (type, name) that copilot.toml does not declare fails, deletes
\* nothing from the filesystem, removes no lock entry and rewrites neither the
\* manifest file nor the lock file.
C6_UndeclaredUnuse ==
    [][(last'.op = "unuse" /\ clock' = clock + 1 /\ ~Declared(last'.type, last'.name)) =>
          /\ last'.err # None
          /\ last'.wrote = {}
          /\ fs' = fs
          /\ lockFile' = lockFile
          /\ manifestFile' = manifestFile]_vars

C6_Witness ==
    /\ last.op = "unuse"
    /\ last.err = "not found in copilot.toml"
    /\ Len(lockFile.entries) > 0
    /\ fs # EmptyMap

\* C7: unuse of a declared entry succeeds unless a step fails from outside,
\* whether or not the target is there; the target is deleted before the lock
\* entry is removed (a failed deletion leaves lock and manifest as they were);
\* on success the target and all under it are gone and nothing else is, the
\* saved lock has no entry for (type, name) and the saved manifest does not
\* declare it.
C7_Unuse ==
    [][(last'.op = "unuse" /\ clock' = clock + 1) =>
          LET t == last'.type
              n == last'.name
              target == TargetPath(t, n)
          IN  /\ (Declared(t, n) /\ last'.err \notin EnvErrs) => last'.err = None
              /\ last'.err = "deleting" => lockFile' = lockFile /\ manifestFile' = manifestFile
              /\ last'.err = None =>
                    /\ Declared(t, n)
                    /\ Before(last'.trace, "RemoveAll", "lock.Remove")
                    /\ DOMAIN fs' = {q \in DOMAIN fs : q # target /\ ~IsUnder(q, target)}
                    /\ \A q \in DOMAIN fs' : fs'[q] = fs[q]
                    /\ lockFile'.exists
                    /\ ~DocHas(lockFile', <<t, "/">> \o n)
                    /\ n \notin DOMAIN manifestFile'[t]]_vars

C7_Witness ==
    /\ last.op = "unuse"
    /\ last.err = None
    /\ clock = 2
    /\ fs # EmptyMap

\* C8: once a sync or an unuse has completed, the saved lock holds no entry
\* whose (type, name) copilot.toml does not declare.
C8_NoOrphans ==
    (pc = "idle" /\ last.op \in {"sync", "unuse"} /\ last.err = None) =>
        \A j \in 1..Len(lockFile.entries) :
            Declared(lockFile.entries[j][2].Type, lockFile.entries[j][2].Name)

\* C9: check reports as an issue, not as OK, every declared entry whose content
\* on disk no longer has the checksum its lock entry records.
C9_TamperSeen ==
    (last.op = "check" /\ Len(results) = Len(entries)) =>
        \A i \in 1..Len(results) :
            LET e == entries[i]
                key == <<e.Type, "/">> \o e.Name
            IN  (/\ TargetPath(e.Type, e.Name) \in DOMAIN fs
                 /\ DocHas(lockFile, key)
                 /\ DocEntry(lockFile, key).Checksum # DiskChecksum(e.Type, e.Name))
                => results[i].Status # CheckOK

\* C10: for every raw string that ParseRef accepts, Raw of the parsed reference
\* is the raw string character for character, and parsing that again gives the
\* same reference.
C10_RoundTrip ==
    parsed.state = "raw" => /\ parsed.text = raw
                            /\ parsed.again = parsed.ref

C10_Witness ==
    /\ parsed.state = "raw"
    /\ Len(parsed.ref.Path) > 1

\* whether the character c occurs in the string s
Occurs(c, s) == \E i \in 1..Len(s) : s[i] = c

\* C11 as stated: for every AssetRef x whose organization, repository, path and
\* ref are all non-empty, ParseRef(Raw(x)) succeeds and returns exactly x.
C11_Original ==
    parsed.state = "reparsed" => parsed.again = parsed.ref

\* C11, amended: for an AssetRef x with non-empty fields, ParseRef(Raw(x))
\* succeeds and returns exactly x if the organization and the repository hold
\* neither "/" nor "@" and the path holds no "@"; for every other such x it does
\* not return x.
C11_Amended ==
    parsed.state = "reparsed" =>
        LET x == parsed.ref
        IN  (parsed.again = x) <=>
               /\ ~Occurs("/", x.Org) /\ ~Occurs("@", x.Org)
               /\ ~Occurs("/", x.Repo) /\ ~Occurs("@", x.Repo)
               /\ ~Occurs("@", x.Path)

C11_Witness ==
    /\ parsed.state = "reparsed"
    /\ parsed.again = parsed.ref
    /\ Occurs("/", parsed.ref.Path)
    /\ Occurs("@", parsed.ref.Ref)

\* C12: ParseRef returns an error for every raw string without "@", with
\* nothing after the "@", with fewer than three "/"-separated segments before
\* the "@", or with an empty organization, repository or path before it.
C12_Rejects ==
    parsed.state = "parsed" =>
        LET at == Index(raw, "@")
            left == SubSeq(raw, 1, at - 1)
            segs == Segments(left)
        IN  (\/ at = 0
             \/ at = Len(raw)
             \/ Len(segs) < 3
             \/ segs[1] = <<>>
             \/ segs[2] = <<>>
             \/ (Len(segs) = 3 /\ segs[3] = <<>>))
            => parsed.ref.err

C12_Witness ==
    /\ parsed.state = "parsed"
    /\ parsed.ref.err
    /\ raw = <<"a", "/", "/", "a", "@", "a">>

\* C13: ParseRef rejects every raw string that holds two or more "@".
C13_OneAt ==
    (parsed.state = "parsed" /\ Cardinality({i \in 1..Len(raw) : raw[i] = "@"}) >= 2)
        => parsed.ref.err

\* whether the call named c is in the trace of calls
Called(calls, c) == \E i \in 1..Len(calls) : calls[i] = c

\* C14: in a single-file Inject whose path does not end in ".md", the download
\* asks for the exact path first and for at most one more path, the path with
\* ".md" appended; when the exact path is not found and the ".md" path is
\* served, the download and the Inject yield the content of the ".md" path;
\* when both are not found the download fails.
C14_MdFallback ==
    (inj.called /\ ~IsDirectory(inj.type) /\ Called(inj.calls, "DownloadFile")
        /\ ~HasSuffix(ParseRef(inj.ref).Path, <<".md">>)) =>
        LET path == ParseRef(inj.ref).Path
            withMd == path \o <<".md">>
            get == inj.env.remote.get
            target == TargetPath(inj.type, inj.name)
        IN  /\ inj.requested = <<path>> \/ inj.requested = <<path, withMd>>
            /\ (get[path].st = "404" /\ get[withMd].st = "200") =>
                  /\ inj.requested = <<path, withMd>>
                  /\ inj.data = get[withMd].body
                  /\ inj.env.io = IoOK =>
                        /\ inj.err = None
                        /\ fs[target] = [dir |-> FALSE, data |-> get[withMd].body]
            /\ (get[path].st = "404" /\ get[withMd].st = "404") =>
                  /\ inj.requested = <<path, withMd>>
                  /\ inj.err = "downloading"

C14_Witness ==
    /\ inj.called /\ inj.type = Agents /\ inj.err = None
    /\ inj.env.remote.get[PathP].st = "404"
    /\ inj.requested = <<PathP, PathP \o Md>>
    /\ inj.data = DataB
    /\ fs[TargetPath(Agents, inj.name)].data = DataB

\* the concatenation of the strings of a sequence
RECURSIVE Flatten(_)
Flatten(ss) == IF ss = <<>> THEN <<>> ELSE Head(ss) \o Flatten(Tail(ss))

\* C15: the checksum data of a directory asset is the concatenation of the
\* contents of all fetched files in the byte order of their relative paths,
\* whatever the order in which the host lists the files.
C15_DirChecksum ==
    (inj.called /\ inj.err = None /\ IsDirectory(inj.type)) =>
        LET ref == ParseRef(inj.ref)
            tree == inj.env.remote.tree
            under == ref.Path \o <<"/">>
            listed == {tree[i].Path : i \in {j \in 1..Len(tree) :
                          /\ tree[j].Type = "blob"
                          /\ (tree[j].Path = ref.Path \/ HasPrefix(tree[j].Path, under))}}
            rel(q) == IF HasPrefix(q, under) THEN SubSeq(q, Len(under) + 1, Len(q))
                      ELSE SubSeq(q, LastIndex(q, "/") + 1, Len(q))
        IN  \E o \in Orders(listed) :
              /\ \A i \in 1..(Len(o) - 1) : StrLess(rel(o[i]), rel(o[i + 1]))
              /\ inj.data = Flatten([i \in 1..Len(o) |-> inj.env.remote.get[o[i]].body])
              /\ \E k \in DOMAIN lock.Entries :
                    /\ lock.Entries[k].TargetPath = TargetPath(inj.type, inj.name)
                    /\ lock.Entries[k].Checksum = <<"sha256">> \o inj.data

C15_Witness ==
    /\ inj.called /\ inj.err = None /\ IsDirectory(inj.type)
    /\ inj.env.remote.tree = TreeGF
    /\ inj.data = DataA \o DataB

\* C16: what Save writes is fixed by the entries of the lock alone, not by the
\* order in which they were set: the saved file lists exactly the entries of
\* the lock saved, each once, with the keys in ascending byte order.
C16_SaveSorted ==
    lockFile.exists =>
        /\ \A i \in 1..(Len(lockFile.entries) - 1) :
              StrLess(lockFile.entries[i][1], lockFile.entries[i + 1][1])
        /\ "lock" \in last.wrote =>
              /\ lockFile.version = lock.Version
              /\ {lockFile.entries[i] : i \in 1..Len(lockFile.entries)}
                    = {<<k, lock.Entries[k]>> : k \in DOMAIN lock.Entries}

C16_Witness ==
    /\ "lock" \in last.wrote
    /\ Len(lockFile.entries) = 2
    /\ lockFile.entries[1][2].SyncedAt > lockFile.entries[2][2].SyncedAt

\* C17: on success the result Inject returns carries the target path and the
\* resolved revision, the same revision that was recorded in the lock entry.
C17_ResultRevision ==
    (inj.called /\ inj.err = None) =>
        /\ inj.result.TargetPath = TargetPath(inj.type, inj.name)
        /\ inj.result.SHA = inj.sha
        /\ \E k \in DOMAIN lock.Entries :
              /\ lock.Entries[k].TargetPath = TargetPath(inj.type, inj.name)
              /\ lock.Entries[k].ResolvedSHA = inj.result.SHA

\* C18: in a single-file Inject the revision is resolved before the content is
\* fetched; when the revision lookup fails, Inject fails, the download is never
\* invoked, no file is written or removed (at most directories are made) and
\* the lock is unchanged.
C18_RevisionFirst ==
    [][(inj'.called /\ clock' = clock + 1 /\ ~IsDirectory(inj'.type)) =>
          /\ Called(inj'.calls, "DownloadFile") =>
                Before(inj'.calls, "ResolveSHA", "DownloadFile")
          /\ (Called(inj'.calls, "ResolveSHA") /\ inj'.env.remote.sha = <<>>) =>
                /\ inj'.err = "resolving commit SHA"
                /\ ~Called(inj'.calls, "DownloadFile")
                /\ inj'.requested = <<>>
                /\ \A q \in DOMAIN fs : q \in DOMAIN fs' /\ fs'[q] = fs[q]
                /\ \A q \in DOMAIN fs' \ DOMAIN fs : fs'[q].dir
                /\ lock' = lock]_vars

C18_Witness ==
    /\ inj.called /\ inj.type = Agents
    /\ inj.err = "resolving commit SHA"
    /\ inj.existed
    /\ DOMAIN lock.Entries # {}

\* C19: when the raw reference does not parse, Inject returns the parse error
\* and does nothing else: no call to the source, no directory or file made,
\* written or removed, no lock entry added, changed or removed.
C19_ParseFailure ==
    [][(inj'.called /\ clock' = clock + 1 /\ ParseRef(inj'.ref).err) =>
          /\ inj'.err = "invalid reference"
          /\ inj'.calls = <<>>
          /\ inj'.requested = <<>>
          /\ fs' = fs
          /\ lock' = lock]_vars

C19_Witness ==
    /\ inj.called
    /\ inj.err = "invalid reference"
    /\ fs # EmptyMap
    /\ DOMAIN lock.Entries # {}

\* C20: in a file download the path with ".md" appended is asked for only
\* after the exact path was answered with not found; any other failure of the
\* exact path ends the download without a second request.
C20_RetryOnlyNotFound ==
    (inj.called /\ ~IsDirectory(inj.type) /\ Len(inj.requested) >= 2) =>
        inj.env.remote.get[inj.requested[1]].st = "404"

\* the paths of the files the host lists at or under the path of the reference
\* of the Inject i, in the order of the listing
ListedPaths(i) ==
    LET path == ParseRef(i.ref).Path
        tree == i.env.remote.tree
        blobs == SelectSeq(tree, LAMBDA e : e.Type = "blob"
                     /\ (e.Path = path \/ HasPrefix(e.Path, path \o <<"/">>)))
    IN  [j \in 1..Len(blobs) |-> blobs[j].Path]

Served(get, q) ==
    \/ get[q].st = "200"
    \/ (get[q].st \in {"404", "neterr"} /\ get[q \o <<".md">>].st = "200")

ServedBody(get, q) == IF get[q].st = "200" THEN get[q].body ELSE get[q \o <<".md">>].body

\* where the directory Inject i writes the listed file q
FileTarget(i, q) ==
    LET under == ParseRef(i.ref).Path \o <<"/">>
        rel == IF HasPrefix(q, under) THEN SubSeq(q, Len(under) + 1, Len(q))
               ELSE SubSeq(q, LastIndex(q, "/") + 1, Len(q))
    IN  TargetPath(i.type, i.name) \o <<"/">> \o rel

\* the listed files of the directory Inject i that cannot be fetched or written
FailingFiles(i) ==
    {j \in 1..Len(ListedPaths(i)) :
        \/ ~Served(i.env.remote.get, ListedPaths(i)[j])
        \/ FileTarget(i, ListedPaths(i)[j]) \in i.env.io.failWrite}

\* how often the call named c is in the trace of calls
CountCalls(calls, c) == Cardinality({j \in 1..Len(calls) : calls[j] = c})

\* C22: when the download or the write of a listed file fails in a directory
\* Inject, Inject returns an error, no later listed file is fetched, the lock
\* is as it was before the call, and the files written before the failure are
\* on disk.
C22_FileFails ==
    [][(inj'.called /\ clock' = clock + 1 /\ IsDirectory(inj'.type)
          /\ ~ParseRef(inj'.ref).err /\ ~inj'.env.remote.treeErr
          /\ ~inj'.env.io.failMkdir /\ FailingFiles(inj') # {}) =>
          LET listed == ListedPaths(inj')
              k == CHOOSE j \in FailingFiles(inj') : \A m \in FailingFiles(inj') : j <= m
          IN  /\ inj'.err \in {"downloading", "writing file"}
              /\ CountCalls(inj'.calls, "DownloadFile") = k
              /\ lock' = lock
              /\ \A j \in 1..(k - 1) :
                    /\ FileTarget(inj', listed[j]) \in DOMAIN fs'
                    /\ fs'[FileTarget(inj', listed[j])] =
                          [dir |-> FALSE, data |-> ServedBody(inj'.env.remote.get, listed[j])]
              /\ \A j \in k..Len(listed) :
                    LET q == FileTarget(inj', listed[j])
                    IN  /\ q \in DOMAIN fs' <=> q \in DOMAIN fs
                        /\ q \in DOMAIN fs => fs'[q] = fs[q]]_vars

C22_Witness ==
    /\ inj.called /\ IsDirectory(inj.type)
    /\ inj.err = "downloading"
    /\ inj.env.remote.tree = TreeFG
    /\ FileTarget(inj, PathF) \in DOMAIN fs
    /\ FileTarget(inj, PathG) \notin DOMAIN fs
    /\ DOMAIN lock.Entries = {}

\* the directory Inject i failed while it fetched the listed files
MidFetch(i) ==
    /\ i.called /\ IsDirectory(i.type)
    /\ i.err \in {"creating directory", "downloading", "writing file"}

\* C23 as stated: after a directory Inject of a skills entry has failed in the
\* middle of fetching its files, the drift check gives the entry NotInLock.
C23_Original ==
    [][(clock' = clock + 1 /\ MidFetch(inj')) =>
          CheckStatus([Type |-> inj'.type, Name |-> inj'.name, Ref |-> inj'.ref], lock', fs')
              = CheckNotInLock]_vars

\* C23, amended: after a directory Inject of a skills entry has failed in the
\* middle of fetching its files, the drift check gives the entry NotInLock when
\* the lock held no entry for it before the Inject; when it held one, that
\* entry is still there and the check gives OK if its ref is the declared ref,
\* RefMismatch if not.
C23_Amended ==
    [][(clock' = clock + 1 /\ MidFetch(inj')) =>
          LET before == LockGet(lock, inj'.type, inj'.name)
          IN  CheckStatus([Type |-> inj'.type, Name |-> inj'.name, Ref |-> inj'.ref],
                          lock', fs')
                = IF ~before.ok THEN CheckNotInLock
                  ELSE IF before.e.Ref # inj'.ref THEN CheckRefMismatch
                  ELSE CheckOK]_vars

C23_Witness ==
    /\ MidFetch(inj)
    /\ inj.name = NameA
    /\ LockGet(lock, Skills, NameA).ok
    /\ lock.Entries[entryKey(Skills, NameA)].TargetPath = TargetPath(Skills, NameA)
    /\ CheckStatus([Type |-> Skills, Name |-> NameA, Ref |-> inj.ref], lock, fs) = CheckOK

\* C24: in a directory Inject the revision is resolved only after every listed
\* file has been downloaded and written; when that lookup fails, Inject still
\* succeeds and the lock entry is written with the revision "unknown" and the
\* checksum of the fetched files.
C24_UnknownRevision ==
    (inj.called /\ IsDirectory(inj.type)) =>
        /\ Called(inj.calls, "ResolveSHA") =>
              /\ CountCalls(inj.calls, "DownloadFile") = Len(ListedPaths(inj))
              /\ CountCalls(inj.calls, "WriteFile") = Len(ListedPaths(inj))
              /\ \A j \in 1..Len(inj.calls) :
                    inj.calls[j] \in {"DownloadFile", "WriteFile"} =>
                        \E m \in (j + 1)..Len(inj.calls) : inj.calls[m] = "ResolveSHA"
        /\ (~ParseRef(inj.ref).err /\ ~inj.env.remote.treeErr /\ ListedPaths(inj) # <<>>
               /\ ~inj.env.io.failMkdir /\ FailingFiles(inj) = {}
               /\ inj.env.remote.sha = <<>>) =>
              /\ inj.err = None
              /\ \E k \in DOMAIN lock.Entries :
                    /\ lock.Entries[k].TargetPath = TargetPath(inj.type, inj.name)
                    /\ lock.Entries[k].ResolvedSHA = <<"unknown">>
                    /\ lock.Entries[k].SyncedAt = inj.now
                    /\ lock.Entries[k].Checksum = <<"sha256">> \o
                          Flatten([j \in 1..Len(ListedPaths(inj)) |->
                                     ServedBody(inj.env.remote.get,
                                                SortStrings({ListedPaths(inj)[m] :
                                                    m \in 1..Len(ListedPaths(inj))})[j])])

C24_Witness ==
    /\ inj.called /\ IsDirectory(inj.type) /\ inj.err = None
    /\ inj.env.remote.sha = <<>>
    /\ inj.env.remote.tree = TreeFG
    /\ inj.sha = <<"unknown">>

C30_StaleFilesStay ==
    [][(inj'.called /\ clock' = clock + 1 /\ IsDirectory(inj'.type)) =>
          /\ \A q \in DOMAIN fs : q \in DOMAIN fs'
          /\ inj'.err = None =>
                LET listed == ListedPaths(inj')
                    written == {FileTarget(inj', listed[j]) : j \in 1..Len(listed)}
                    sorted == SortStrings({listed[j] : j \in 1..Len(listed)})
                IN  /\ \A q \in DOMAIN fs \ written : fs'[q] = fs[q]
                    /\ \E k \in DOMAIN lock'.Entries :
                          /\ lock'.Entries[k].TargetPath = TargetPath(inj'.type, inj'.name)
                          /\ lock'.Entries[k].Checksum = <<"sha256">> \o
                                Flatten([j \in 1..Len(sorted) |->
                                           ServedBody(inj'.env.remote.get, sorted[j])])]_vars

C30_Witness ==
    /\ inj.called /\ IsDirectory(inj.type) /\ inj.err = None
    /\ inj.env.remote.tree = TreeF
    /\ FileTarget(inj, PathG) \in DOMAIN fs
    /\ fs[FileTarget(inj, PathG)].data = DataB
    /\ inj.data = DataA

\* C25: whenever unuse returns an error, at whichever step it failed, the saved
\* manifest, the saved lock and the filesystem are as they were before it.
C25_AllOrNothing ==
    [][(last'.op = "unuse" /\ clock' = clock + 1 /\ last'.err # None) =>
          /\ manifestFile' = manifestFile
          /\ lockFile' = lockFile
          /\ fs' = fs]_vars

\* C26: when use fails because the asset type is invalid, the reference does
\* not parse or Inject fails, the saved manifest and the saved lock are as they
\* were; the entry is set in the manifest and manifest and lock are saved only
\* after Inject has succeeded.
C26_UseFails ==
    [][(last'.op = "use" /\ clock' = clock + 1) =>
          /\ last'.err \in {"invalid asset type", "invalid reference", "failed to download"} =>
                /\ manifestFile' = manifestFile
                /\ lockFile' = lockFile
                /\ last'.wrote = {}
          /\ (manifestFile' # manifestFile \/ lockFile' # lockFile \/ last'.wrote # {}) =>
                /\ inj'.called /\ inj'.err = None
                /\ Before(last'.trace, "Inject", "m.Set")
                /\ Before(last'.trace, "Inject", "m.Save")
                /\ "lock" \in last'.wrote => Before(last'.trace, "Inject", "lock.Save")]_vars

C26_Witness ==
    /\ last.op = "use"
    /\ last.err = "failed to download"
    /\ inj.called /\ inj.err = "downloading"
    /\ TargetPath(last.type, last.name) \in DOMAIN fs
    /\ ~Declared(last.type, last.name)
    /\ lockFile.exists

\* C27: against one state of the host, a sync pass leaves the same lock
\* entries and the same files whatever the order in which it visits the
\* declared entries.
C27_OrderFree ==
    (last.op = "sync" /\ entries # <<>>) =>
        \A other \in AllEntries(manifestFile) :
            LET alt == syncPass(other, 1, NewLockFile, EmptyMap, <<>>, inj.env, clock)
            IN  /\ alt.fs = fs
                /\ alt.lock = lock
                /\ LockSave(alt.lock) = lockFile

\* C28: after a successful single-file Inject of a reference to a branch or to
\* "latest", the bytes on disk are the content of the file at the revision
\* that the lock entry records, also when the branch moved during the Inject.
C28_PinnedContent ==
    (inj.called /\ inj.err = None /\ ~IsDirectory(inj.type)) =>
        LET e == lock.Entries[<<inj.type, "/">> \o inj.name]
        IN  \E c \in 1..Len(History) :
              /\ History[c].sha = e.ResolvedSHA
              /\ fs[TargetPath(inj.type, inj.name)].data = History[c].body

====
